---------------------------- MODULE Spec2Model ----------------------------
(***************************************************************************)
(* Travel-Social: the relational store (schema, constraints, row-level     *)
(* security policies of the SQL migrations) and the client handlers that   *)
(* issue statements against it.                                            *)
(***************************************************************************)
EXTENDS Integers, FiniteSets, Sequences, TLC

(***************************************************************************)
(* Bounds                                                                  *)
(***************************************************************************)
NumUsers == 3
MaxRows == 2
MaxCount == 1
NumSessions == 2

(***************************************************************************)
(* Identities and small value domains                                      *)
(***************************************************************************)
\* auth.uid() of an unauthenticated caller is NULL
Anon == 0
Users == 1..NumUsers
Actors == Users \cup {Anon}
Cities == {1}
Texts == {0, 1}
NULL == -1

VARIABLES
  db,      \* the entity store: table name -> set of rows
  resp,    \* the response of the last statement executed by the store
  sess     \* the client sessions (browser tabs): session id -> local state

vars == <<db, resp, sess>>

(***************************************************************************)
(* Schema                                                                  *)
(***************************************************************************)
TableNames ==
  {"cities", "profiles", "posts", "comments", "events", "event_rsvps",
   "event_discussions", "post_votes", "travel_plans", "travel_plan_comments",
   "travel_vlogs", "vlog_reactions", "vlog_comments", "chats", "messages"}

\* tables whose primary key is a generated uuid column "id"
IdTables ==
  {"posts", "comments", "events", "event_discussions", "travel_plans",
   "travel_plan_comments", "travel_vlogs", "vlog_comments", "chats", "messages"}

\* the primary key columns of a table
PrimaryKey(t) ==
  CASE t = "event_rsvps" -> {"event_id", "user_id"}
    [] t = "post_votes" -> {"user_id", "post_id"}
    [] t = "vlog_reactions" -> {"user_id", "vlog_id"}
    [] OTHER -> {"id"}

SameKey_mutant(t, r1, r2) == r1 = r2
SameKey(t, r1, r2) == \A c \in PrimaryKey(t) : r1[c] = r2[c]

\* the UNIQUE constraints of a table other than its primary key
UniqueConstraints_mutant(t) == {}
UniqueConstraints(t) ==
  CASE t = "profiles" -> {{"username"}}
    [] t = "cities" -> {{"name", "country"}}
    [] OTHER -> {}

\* two rows cannot both be stored: same primary key or same unique columns
Conflicts(t, r1, r2) ==
  \/ SameKey(t, r1, r2)
  \/ \E k \in UniqueConstraints(t) : \A c \in k : r1[c] = r2[c]

\* REFERENCES clauses: child table, column, parent table, ON DELETE CASCADE?
ForeignKeys ==
  { [child |-> "profiles", col |-> "city_id", parent |-> "cities", cascade |-> FALSE],
    [child |-> "posts", col |-> "author_id", parent |-> "profiles", cascade |-> FALSE],
    [child |-> "posts", col |-> "city_id", parent |-> "cities", cascade |-> FALSE],
    [child |-> "comments", col |-> "author_id", parent |-> "profiles", cascade |-> FALSE],
    [child |-> "comments", col |-> "post_id", parent |-> "posts", cascade |-> FALSE],
    [child |-> "events", col |-> "city_id", parent |-> "cities", cascade |-> FALSE],
    [child |-> "events", col |-> "added_by", parent |-> "profiles", cascade |-> FALSE],
    [child |-> "event_rsvps", col |-> "event_id", parent |-> "events", cascade |-> TRUE],
    [child |-> "event_rsvps", col |-> "user_id", parent |-> "profiles", cascade |-> TRUE],
    [child |-> "event_discussions", col |-> "event_id", parent |-> "events", cascade |-> TRUE],
    [child |-> "event_discussions", col |-> "author_id", parent |-> "profiles", cascade |-> TRUE],
    [child |-> "post_votes", col |-> "user_id", parent |-> "profiles", cascade |-> TRUE],
    [child |-> "post_votes", col |-> "post_id", parent |-> "posts", cascade |-> TRUE],
    [child |-> "travel_plans", col |-> "user_id", parent |-> "profiles", cascade |-> TRUE],
    [child |-> "travel_plans", col |-> "city_id", parent |-> "cities", cascade |-> TRUE],
    [child |-> "travel_plan_comments", col |-> "user_id", parent |-> "profiles", cascade |-> TRUE],
    [child |-> "travel_plan_comments", col |-> "plan_id", parent |-> "travel_plans", cascade |-> TRUE],
    [child |-> "travel_vlogs", col |-> "user_id", parent |-> "profiles", cascade |-> TRUE],
    [child |-> "travel_vlogs", col |-> "city_id", parent |-> "cities", cascade |-> TRUE],
    [child |-> "vlog_reactions", col |-> "user_id", parent |-> "profiles", cascade |-> TRUE],
    [child |-> "vlog_reactions", col |-> "vlog_id", parent |-> "travel_vlogs", cascade |-> TRUE],
    [child |-> "vlog_comments", col |-> "user_id", parent |-> "profiles", cascade |-> TRUE],
    [child |-> "vlog_comments", col |-> "vlog_id", parent |-> "travel_vlogs", cascade |-> TRUE],
    [child |-> "chats", col |-> "user1_id", parent |-> "profiles", cascade |-> TRUE],
    [child |-> "chats", col |-> "user2_id", parent |-> "profiles", cascade |-> TRUE],
    [child |-> "messages", col |-> "chat_id", parent |-> "chats", cascade |-> TRUE],
    [child |-> "messages", col |-> "sender_id", parent |-> "profiles", cascade |-> TRUE] }

\* CHECK constraints of a row
post_votes_vote_type_check(r) == r.vote_type \in {"up", "down"}
event_rsvps_status_check(r) == r.status \in {"going", "interested"}
vlog_reactions_reaction_type_check(r) == r.reaction_type \in {"like", "dislike"}
different_users(r) == r.user1_id # r.user2_id
ordered_users(r) == r.user1_id < r.user2_id
valid_date_range_mutant(r) == TRUE
valid_date_range(r) == r.end_date >= r.start_date

CheckConstraints(t, r) ==
  CASE t = "post_votes" -> post_votes_vote_type_check(r)
    [] t = "event_rsvps" -> event_rsvps_status_check(r)
    [] t = "vlog_reactions" -> vlog_reactions_reaction_type_check(r)
    [] t = "chats" -> different_users(r) /\ ordered_users(r)
    [] t = "travel_plans" -> valid_date_range(r)
    [] OTHER -> TRUE

\* the references of each table
ReferencesOf == [t \in TableNames |-> {fk \in ForeignKeys : fk.child = t}]

\* every non-null reference of the row names an existing parent row
ForeignKeysHold(d, t, r) ==
  \A fk \in ReferencesOf[t] :
    r[fk.col] # NULL => \E p \in d[fk.parent] : p.id = r[fk.col]


(***************************************************************************)
(* Row-level security policies.  A policy TO authenticated never applies   *)
(* to the anonymous role; a table with no policy for a command denies it.  *)
(***************************************************************************)
Authenticated(uid) == uid # Anon

cities_select_using(uid, r) == TRUE
cities_insert_check(uid, r) == Authenticated(uid)

profiles_select_using(uid, r) == TRUE
profiles_update_using(uid, r) == Authenticated(uid) /\ uid = r.id
profiles_update_check(uid, r) == Authenticated(uid) /\ uid = r.id

posts_select_using(uid, r) == TRUE
posts_insert_check(uid, r) == Authenticated(uid) /\ uid = r.author_id
posts_update_using_mutant(uid, r) == Authenticated(uid)
posts_update_using(uid, r) == Authenticated(uid) /\ uid = r.author_id
posts_update_check(uid, r) == Authenticated(uid) /\ uid = r.author_id
posts_delete_using(uid, r) == Authenticated(uid) /\ uid = r.author_id

comments_select_using(uid, r) == TRUE
comments_insert_check(uid, r) == Authenticated(uid) /\ uid = r.author_id
comments_update_using(uid, r) == Authenticated(uid) /\ uid = r.author_id
comments_update_check(uid, r) == Authenticated(uid) /\ uid = r.author_id
comments_delete_using(uid, r) == Authenticated(uid) /\ uid = r.author_id

events_select_using(uid, r) == TRUE
events_insert_check_mutant(d, uid, r) == Authenticated(uid) /\ uid = r.added_by
events_insert_check(d, uid, r) ==
  /\ Authenticated(uid)
  /\ uid = r.added_by
  /\ \E p \in d["profiles"] : p.id = uid /\ p.role = "resident"
events_update_using(uid, r) == Authenticated(uid) /\ uid = r.added_by
events_update_check(uid, r) == Authenticated(uid) /\ uid = r.added_by
events_delete_using(uid, r) == Authenticated(uid) /\ uid = r.added_by

event_rsvps_select_using(uid, r) == TRUE
event_rsvps_insert_check(uid, r) == Authenticated(uid) /\ uid = r.user_id
event_rsvps_update_using(uid, r) == Authenticated(uid) /\ uid = r.user_id
event_rsvps_update_check(uid, r) == Authenticated(uid) /\ uid = r.user_id
event_rsvps_delete_using(uid, r) == Authenticated(uid) /\ uid = r.user_id

event_discussions_select_using(uid, r) == TRUE
event_discussions_insert_check(uid, r) == Authenticated(uid) /\ uid = r.author_id
event_discussions_update_using(uid, r) == Authenticated(uid) /\ uid = r.author_id
event_discussions_update_check(uid, r) == Authenticated(uid) /\ uid = r.author_id
event_discussions_delete_using(uid, r) == Authenticated(uid) /\ uid = r.author_id

\* one policy FOR ALL: its USING also governs SELECT
post_votes_all_using_mutant(uid, r) == Authenticated(uid)
post_votes_all_using(uid, r) == Authenticated(uid) /\ uid = r.user_id
post_votes_all_check(uid, r) == Authenticated(uid) /\ uid = r.user_id

travel_plans_select_using(uid, r) == TRUE
travel_plans_insert_check(uid, r) == Authenticated(uid) /\ uid = r.user_id
travel_plans_update_using(uid, r) == Authenticated(uid) /\ uid = r.user_id
travel_plans_update_check(uid, r) == Authenticated(uid) /\ uid = r.user_id
travel_plans_delete_using(uid, r) == Authenticated(uid) /\ uid = r.user_id

travel_plan_comments_select_using(uid, r) == TRUE
travel_plan_comments_insert_check_mutant(uid, r) == Authenticated(uid)
travel_plan_comments_insert_check(uid, r) == Authenticated(uid) /\ uid = r.user_id
travel_plan_comments_update_using(uid, r) == Authenticated(uid) /\ uid = r.user_id
travel_plan_comments_update_check(uid, r) == Authenticated(uid) /\ uid = r.user_id
travel_plan_comments_delete_using(uid, r) == Authenticated(uid) /\ uid = r.user_id

travel_vlogs_select_using(uid, r) == TRUE
travel_vlogs_insert_check(uid, r) == Authenticated(uid) /\ uid = r.user_id
travel_vlogs_update_using(uid, r) == Authenticated(uid) /\ uid = r.user_id
travel_vlogs_update_check(uid, r) == Authenticated(uid) /\ uid = r.user_id
travel_vlogs_delete_using(uid, r) == Authenticated(uid) /\ uid = r.user_id

vlog_reactions_select_using(uid, r) == TRUE
vlog_reactions_insert_check(uid, r) == Authenticated(uid) /\ uid = r.user_id
vlog_reactions_update_using(uid, r) == Authenticated(uid) /\ uid = r.user_id
vlog_reactions_update_check(uid, r) == Authenticated(uid) /\ uid = r.user_id
vlog_reactions_delete_using(uid, r) == Authenticated(uid) /\ uid = r.user_id

vlog_comments_select_using(uid, r) == TRUE
vlog_comments_insert_check(uid, r) == Authenticated(uid) /\ uid = r.user_id
vlog_comments_update_using(uid, r) == Authenticated(uid) /\ uid = r.user_id
vlog_comments_update_check(uid, r) == Authenticated(uid) /\ uid = r.user_id
vlog_comments_delete_using(uid, r) == Authenticated(uid) /\ uid = r.user_id

chats_select_using_mutant(uid, r) == Authenticated(uid)
chats_select_using(uid, r) ==
  Authenticated(uid) /\ (uid = r.user1_id \/ uid = r.user2_id)
chats_insert_check(uid, r) ==
  Authenticated(uid) /\ uid \in {r.user1_id, r.user2_id} /\ r.user1_id < r.user2_id

\* city_members is created by no migration of the repository; its rows are
\* taken to be readable, as the queries of Matches and Cities presume
city_members_select_using(uid, r) == TRUE

messages_select_using(d, uid, r) ==
  /\ Authenticated(uid)
  /\ \E c \in d["chats"] :
       c.id = r.chat_id /\ (c.user1_id = uid \/ c.user2_id = uid)
messages_insert_check_mutant(d, uid, r) == Authenticated(uid) /\ \E c \in d["chats"] : c.id = r.chat_id /\ (c.user1_id = uid \/ c.user2_id = uid)
messages_insert_check(d, uid, r) ==
  /\ Authenticated(uid)
  /\ r.sender_id = uid
  /\ \E c \in d["chats"] :
       c.id = r.chat_id /\ (c.user1_id = uid \/ c.user2_id = uid)

SelectUsing(d, t, uid, r) ==
  CASE t = "cities" -> cities_select_using(uid, r)
    [] t = "profiles" -> profiles_select_using(uid, r)
    [] t = "posts" -> posts_select_using(uid, r)
    [] t = "comments" -> comments_select_using(uid, r)
    [] t = "events" -> events_select_using(uid, r)
    [] t = "event_rsvps" -> event_rsvps_select_using(uid, r)
    [] t = "event_discussions" -> event_discussions_select_using(uid, r)
    [] t = "post_votes" -> post_votes_all_using(uid, r)
    [] t = "travel_plans" -> travel_plans_select_using(uid, r)
    [] t = "travel_plan_comments" -> travel_plan_comments_select_using(uid, r)
    [] t = "travel_vlogs" -> travel_vlogs_select_using(uid, r)
    [] t = "vlog_reactions" -> vlog_reactions_select_using(uid, r)
    [] t = "vlog_comments" -> vlog_comments_select_using(uid, r)
    [] t = "chats" -> chats_select_using(uid, r)
    [] t = "messages" -> messages_select_using(d, uid, r)
    [] t = "city_members" -> city_members_select_using(uid, r)
    [] OTHER -> FALSE

InsertCheck(d, t, uid, r) ==
  CASE t = "cities" -> cities_insert_check(uid, r)
    [] t = "posts" -> posts_insert_check(uid, r)
    [] t = "comments" -> comments_insert_check(uid, r)
    [] t = "events" -> events_insert_check(d, uid, r)
    [] t = "event_rsvps" -> event_rsvps_insert_check(uid, r)
    [] t = "event_discussions" -> event_discussions_insert_check(uid, r)
    [] t = "post_votes" -> post_votes_all_check(uid, r)
    [] t = "travel_plans" -> travel_plans_insert_check(uid, r)
    [] t = "travel_plan_comments" -> travel_plan_comments_insert_check(uid, r)
    [] t = "travel_vlogs" -> travel_vlogs_insert_check(uid, r)
    [] t = "vlog_reactions" -> vlog_reactions_insert_check(uid, r)
    [] t = "vlog_comments" -> vlog_comments_insert_check(uid, r)
    [] t = "chats" -> chats_insert_check(uid, r)
    [] t = "messages" -> messages_insert_check(d, uid, r)
    [] OTHER -> FALSE

UpdateUsing(d, t, uid, r) ==
  CASE t = "profiles" -> profiles_update_using(uid, r)
    [] t = "posts" -> posts_update_using(uid, r)
    [] t = "comments" -> comments_update_using(uid, r)
    [] t = "events" -> events_update_using(uid, r)
    [] t = "event_rsvps" -> event_rsvps_update_using(uid, r)
    [] t = "event_discussions" -> event_discussions_update_using(uid, r)
    [] t = "post_votes" -> post_votes_all_using(uid, r)
    [] t = "travel_plans" -> travel_plans_update_using(uid, r)
    [] t = "travel_plan_comments" -> travel_plan_comments_update_using(uid, r)
    [] t = "travel_vlogs" -> travel_vlogs_update_using(uid, r)
    [] t = "vlog_reactions" -> vlog_reactions_update_using(uid, r)
    [] t = "vlog_comments" -> vlog_comments_update_using(uid, r)
    [] OTHER -> FALSE

UpdateCheck(d, t, uid, r) ==
  CASE t = "profiles" -> profiles_update_check(uid, r)
    [] t = "posts" -> posts_update_check(uid, r)
    [] t = "comments" -> comments_update_check(uid, r)
    [] t = "events" -> events_update_check(uid, r)
    [] t = "event_rsvps" -> event_rsvps_update_check(uid, r)
    [] t = "event_discussions" -> event_discussions_update_check(uid, r)
    [] t = "post_votes" -> post_votes_all_check(uid, r)
    [] t = "travel_plans" -> travel_plans_update_check(uid, r)
    [] t = "travel_plan_comments" -> travel_plan_comments_update_check(uid, r)
    [] t = "travel_vlogs" -> travel_vlogs_update_check(uid, r)
    [] t = "vlog_reactions" -> vlog_reactions_update_check(uid, r)
    [] t = "vlog_comments" -> vlog_comments_update_check(uid, r)
    [] OTHER -> FALSE

DeleteUsing(d, t, uid, r) ==
  CASE t = "posts" -> posts_delete_using(uid, r)
    [] t = "comments" -> comments_delete_using(uid, r)
    [] t = "events" -> events_delete_using(uid, r)
    [] t = "event_rsvps" -> event_rsvps_delete_using(uid, r)
    [] t = "event_discussions" -> event_discussions_delete_using(uid, r)
    [] t = "post_votes" -> post_votes_all_using(uid, r)
    [] t = "travel_plans" -> travel_plans_delete_using(uid, r)
    [] t = "travel_plan_comments" -> travel_plan_comments_delete_using(uid, r)
    [] t = "travel_vlogs" -> travel_vlogs_delete_using(uid, r)
    [] t = "vlog_reactions" -> vlog_reactions_delete_using(uid, r)
    [] t = "vlog_comments" -> vlog_comments_delete_using(uid, r)
    [] OTHER -> FALSE

(***************************************************************************)
(* Statement execution.  Each statement is atomic: it yields the new       *)
(* store, an error flag and the rows it returns or affects; a statement    *)
(* that raises an error leaves the store as it was.                        *)
(***************************************************************************)
Result(d, err, rows) == [d |-> d, err |-> err, rows |-> rows]

\* gen_random_uuid(): an identifier no row of the table carries
NewId(d, t) ==
  CHOOSE n \in 1..(Cardinality(d[t]) + 1) :
    /\ \A r \in d[t] : r.id # n
    /\ \A m \in 1..(n - 1) : \E r \in d[t] : r.id = m

\* SELECT ... WHERE: of the rows that match the WHERE clause, those the
\* caller's policies let it see
Select(d, t, uid, matching) ==
  Result(d, FALSE, {r \in d[t] : r \in matching /\ SelectUsing(d, t, uid, r)})

\* variant that stores the row before it reports the violation
Insert_mutant(d, t, uid, new) ==
  Result([d EXCEPT ![t] = @ \cup {new}],
         ~(/\ InsertCheck(d, t, uid, new)
           /\ CheckConstraints(t, new)
           /\ ForeignKeysHold(d, t, new)
           /\ \A r \in d[t] : ~Conflicts(t, r, new)),
         {new})

\* INSERT of one row
Insert(d, t, uid, new) ==
  IF /\ InsertCheck(d, t, uid, new)
     /\ CheckConstraints(t, new)
     /\ ForeignKeysHold(d, t, new)
     /\ \A r \in d[t] : ~Conflicts(t, r, new)
  THEN Result([d EXCEPT ![t] = @ \cup {new}], FALSE, {new})
  ELSE Result(d, TRUE, {})

\* the row with the columns of the patch overwritten
Patch(r, patch) ==
  [c \in DOMAIN r |-> IF c \in DOMAIN patch THEN patch[c] ELSE r[c]]

\* UPDATE ... SET patch WHERE
Update(d, t, uid, matching, patch) ==
  LET targets == {r \in d[t] :
                    r \in matching /\ SelectUsing(d, t, uid, r) /\ UpdateUsing(d, t, uid, r)}
      news == {Patch(r, patch) : r \in targets}
      rest == d[t] \ targets
      ok == /\ \A n \in news :
                 /\ UpdateCheck(d, t, uid, n)
                 /\ CheckConstraints(t, n)
                 /\ ForeignKeysHold(d, t, n)
                 /\ \A r \in rest : ~Conflicts(t, r, n)
            /\ Cardinality(news) = Cardinality(targets)
  IN IF ok THEN Result([d EXCEPT ![t] = rest \cup news], FALSE, news)
           ELSE Result(d, TRUE, {})

\* INSERT ... ON CONFLICT (primary key) DO UPDATE
Upsert_mutant(d, t, uid, new) == Insert(d, t, uid, new)
Upsert(d, t, uid, new) ==
  LET conflict == {r \in d[t] : SameKey(t, r, new)}
      ok == /\ InsertCheck(d, t, uid, new)
            /\ CheckConstraints(t, new)
            /\ ForeignKeysHold(d, t, new)
            /\ \A r \in d[t] \ conflict : ~Conflicts(t, r, new)
            /\ \A r \in conflict :
                 /\ SelectUsing(d, t, uid, r)
                 /\ UpdateUsing(d, t, uid, r)
                 /\ UpdateCheck(d, t, uid, new)
  IN IF ok THEN Result([d EXCEPT ![t] = (@ \ conflict) \cup {new}], FALSE, {new})
           ELSE Result(d, TRUE, {})

\* the rows that go with a set of <<table, row>> pairs through ON DELETE CASCADE
CascadeStep(d, S) ==
  S \cup UNION { { <<fk.child, c>> :
                     c \in {c \in d[fk.child] :
                              \E x \in S : x[1] = fk.parent /\ c[fk.col] = x[2].id} } :
                 fk \in {f \in ForeignKeys : f.cascade} }

RECURSIVE CascadeClosure(_, _)
CascadeClosure(d, S) ==
  IF CascadeStep(d, S) = S THEN S ELSE CascadeClosure(d, CascadeStep(d, S))

\* a reference without ON DELETE CASCADE to a row being removed
RestrictViolated(d, S) ==
  \E fk \in {f \in ForeignKeys : ~f.cascade} :
    \E c \in d[fk.child] :
      /\ <<fk.child, c>> \notin S
      /\ \E x \in S : x[1] = fk.parent /\ c[fk.col] = x[2].id

\* DELETE ... WHERE
Delete(d, t, uid, matching) ==
  LET targets == {r \in d[t] :
                    r \in matching /\ SelectUsing(d, t, uid, r) /\ DeleteUsing(d, t, uid, r)}
      gone == CascadeClosure(d, {<<t, r>> : r \in targets})
  IN IF RestrictViolated(d, gone)
     THEN Result(d, TRUE, {})
     ELSE Result([x \in DOMAIN d |-> {r \in d[x] : <<x, r>> \notin gone}],
                 FALSE, targets)


(***************************************************************************)
(* The store as its callers see it: any identity, authenticated or not,    *)
(* may send any statement; the client is not a trusted boundary.           *)
(***************************************************************************)
Roles == [u \in Users |-> IF u = 1 THEN "resident" ELSE "traveler"]

\* usernames are texts chosen by the users; no username is a user's uuid
InitialUsername(u) == NumUsers + u

EmptyStore ==
  [t \in TableNames |->
     CASE t = "cities" -> {[id |-> c, name |-> c, country |-> 0] : c \in Cities}
       [] t = "profiles" ->
            {[id |-> u, username |-> InitialUsername(u), role |-> Roles[u], city_id |-> NULL] :
               u \in Users}
       [] OTHER -> {}]

NoResp == [op |-> "NONE", tbl |-> "", uid |-> Anon, arg |-> <<>>, err |-> FALSE, rows |-> {}]

\* the column that names the owner of a row
OwnerCol(t) ==
  CASE t \in {"posts", "comments", "event_discussions"} -> "author_id"
    [] t = "events" -> "added_by"
    [] t = "messages" -> "sender_id"
    [] OTHER -> "user_id"

Owner(t, r) == r[OwnerCol(t)]

Ids(d, t) == {r.id : r \in d[t]}

Dates == {1, 2}

\* the rows a caller may submit for insertion into a table
Candidates(d, t) ==
  CASE t = "posts" ->
         [id : {NewId(d, t)}, author_id : Users, city_id : Cities, content : {0},
          upvotes : {0}, downvotes : {0}]
    [] t = "comments" ->
         [id : {NewId(d, t)}, author_id : Users, post_id : Ids(d, "posts"), content : {0}]
    [] t = "events" ->
         [id : {NewId(d, t)}, added_by : Users, city_id : Cities, content : {0}]
    [] t = "event_rsvps" ->
         [event_id : Ids(d, "events"), user_id : Users, status : {"going", "interested"}]
    [] t = "event_discussions" ->
         [id : {NewId(d, t)}, author_id : Users, event_id : Ids(d, "events"), content : {0}]
    [] t = "post_votes" ->
         [user_id : Users, post_id : Ids(d, "posts"), vote_type : {"up", "down"}]
    [] t = "travel_plans" ->
         [id : {NewId(d, t)}, user_id : Users, city_id : Cities, content : {0},
          start_date : {2}, end_date : Dates]
    [] t = "travel_plan_comments" ->
         [id : {NewId(d, t)}, user_id : Users, plan_id : Ids(d, "travel_plans"), content : {0}]
    [] t = "travel_vlogs" ->
         [id : {NewId(d, t)}, user_id : Users, city_id : Cities, content : {0},
          like_count : {0}, dislike_count : {0}]
    [] t = "vlog_reactions" ->
         [user_id : Users, vlog_id : Ids(d, "travel_vlogs"), reaction_type : {"like", "dislike"}]
    [] t = "vlog_comments" ->
         [id : {NewId(d, t)}, user_id : Users, vlog_id : Ids(d, "travel_vlogs"), content : {0}]
    [] t = "chats" ->
         [id : {NewId(d, t)}, user1_id : Users, user2_id : Users]
    [] t = "messages" ->
         [id : {NewId(d, t)}, chat_id : Ids(d, "chats"), sender_id : Users, content : {0}]
    [] OTHER -> {}

\* the SET clauses a caller may submit for a table
Patches(t) ==
  CASE t = "post_votes" -> [vote_type : {"up", "down"}] \cup [user_id : Users]
    [] t = "event_rsvps" -> [status : {"going", "interested"}] \cup [user_id : Users]
    [] t = "vlog_reactions" -> [reaction_type : {"like", "dislike"}] \cup [user_id : Users]
    [] t = "chats" -> [user2_id : Users]
    [] t = "posts" -> [author_id : Users] \cup [content : {1}]
    [] t = "comments" -> [author_id : Users] \cup [content : {1}]
    [] t = "event_discussions" -> [author_id : Users] \cup [content : {1}]
    [] t = "events" -> [added_by : Users] \cup [content : {1}]
    [] t = "messages" -> [sender_id : Users] \cup [content : {1}]
    [] OTHER -> [user_id : Users] \cup [content : {1}]

\* the tables callers write rows to
WritableTables == TableNames \ {"cities", "profiles"}

RowCount(d) ==
  Cardinality(d["posts"]) + Cardinality(d["comments"]) + Cardinality(d["events"])
  + Cardinality(d["event_rsvps"]) + Cardinality(d["event_discussions"])
  + Cardinality(d["post_votes"]) + Cardinality(d["travel_plans"])
  + Cardinality(d["travel_plan_comments"]) + Cardinality(d["travel_vlogs"])
  + Cardinality(d["vlog_reactions"]) + Cardinality(d["vlog_comments"])
  + Cardinality(d["chats"]) + Cardinality(d["messages"])

\* the aggregate a table belongs to: a root table and its dependants
Aggregate(t) ==
  CASE t \in {"posts", "comments", "post_votes"} -> "posts"
    [] t \in {"events", "event_rsvps", "event_discussions"} -> "events"
    [] t \in {"travel_plans", "travel_plan_comments"} -> "travel_plans"
    [] t \in {"travel_vlogs", "vlog_reactions", "vlog_comments"} -> "travel_vlogs"
    [] OTHER -> "chats"

\* the explored stores hold one aggregate at a time: one root row and its
\* dependants
InScope(d, t) ==
  /\ \A x \in WritableTables : d[x] # {} => Aggregate(x) = Aggregate(t)
  /\ t = Aggregate(t) => d[t] = {}

Response(op, t, uid, arg, res) ==
  [op |-> op, tbl |-> t, uid |-> uid, arg |-> arg, err |-> res.err, rows |-> res.rows]

\* the store executes one statement at a time; its response is in flight
\* until the caller has received it
Idle == resp.op = "NONE"

StoreSelect(uid, t) ==
  /\ Idle
  /\ db[t] # {}
  /\ resp' = Response("SELECT", t, uid, <<>>, Select(db, t, uid, db[t]))
  /\ UNCHANGED <<db, sess>>

StoreInsert(uid, t) ==
  /\ Idle
  /\ InScope(db, t)
  /\ \E new \in Candidates(db, t) :
       LET res == Insert(db, t, uid, new)
       IN /\ RowCount(res.d) <= MaxRows
          /\ db' = res.d
          /\ resp' = Response("INSERT", t, uid, new, res)
  /\ UNCHANGED sess

StoreUpdate(uid, t) ==
  /\ Idle
  /\ \E k \in db[t], patch \in Patches(t) :
       LET res == Update(db, t, uid, {k}, patch)
       IN /\ db' = res.d
          /\ resp' = Response("UPDATE", t, uid, <<>>, res)
  /\ UNCHANGED sess

StoreDelete(uid, t) ==
  /\ Idle
  /\ \E k \in db[t] :
       LET res == Delete(db, t, uid, {k})
       IN /\ db' = res.d
          /\ resp' = Response("DELETE", t, uid, <<>>, res)
  /\ UNCHANGED sess

\* the caller receives the response
StoreReturn ==
  /\ ~Idle
  /\ resp' = NoResp
  /\ UNCHANGED <<db, sess>>

InitStore ==
  /\ db = EmptyStore
  /\ resp = NoResp
  /\ sess = <<>>

NextStore ==
  \/ \E uid \in Actors, t \in WritableTables : StoreSelect(uid, t)
  \/ \E uid \in Actors, t \in WritableTables : StoreInsert(uid, t)
  \/ \E uid \in Actors, t \in WritableTables : StoreUpdate(uid, t)
  \/ \E uid \in Actors, t \in WritableTables : StoreDelete(uid, t)
  \/ StoreReturn

SpecStore == InitStore /\ [][NextStore]_vars


(***************************************************************************)
(* Client sessions.  A session is one mounted page component of a signed-in *)
(* user; a handler runs between awaits as a sequence of atomic steps, and   *)
(* steps of different sessions interleave.                                  *)
(***************************************************************************)
Sessions == 1..NumSessions

\* the rows the pages of these specifications work on
ThePost == 1
TheVlog == 1
TheEvent == 1

SeededStore ==
  [EmptyStore EXCEPT
     !["posts"] = {[id |-> ThePost, author_id |-> 1, city_id |-> 1, content |-> 0,
                    upvotes |-> 0, downvotes |-> 0]},
     !["travel_vlogs"] = {[id |-> TheVlog, user_id |-> 1, city_id |-> 1, content |-> 0,
                           like_count |-> 0, dislike_count |-> 0]},
     !["events"] = {[id |-> TheEvent, added_by |-> 1, city_id |-> 1, content |-> 0]}]

NoCache == <<>>

\* the state of a page after its initial fetch of the seeded store
InitialCache(page) ==
  CASE page = "posts" -> [upvotes |-> 0, downvotes |-> 0]
    [] page = "vlogs" -> [like_count |-> 0, dislike_count |-> 0, user_reaction |-> "none"]
    [] page = "events" -> [status |-> "none"]
    [] page = "matches" -> [chat |-> NULL, match |-> NULL, matches |-> {}]
    [] page = "plans" -> [plans |-> {}]
    [] page = "wiki" -> [poll_votes |-> [a \in {"yes", "no"} |-> 0]]
    [] page = "transport" -> [flights |-> <<>>, error |-> "", key |-> ""]
    [] page = "chat" -> [messages |-> <<>>, sent |-> 0, events |-> {}]
    [] OTHER -> NoCache

NewSession(user, page) ==
  [user |-> user, page |-> page, pc |-> "idle", arg |-> "none", existing |-> "none",
   snap |-> NoCache, cache |-> InitialCache(page), fetching |-> FALSE,
   pending |-> NoCache]

\* the handler of session s returns
Return(s) ==
  [sess EXCEPT ![s].pc = "idle", ![s].arg = "none", ![s].existing = "none",
               ![s].snap = NoCache]

Max(a, b) == IF a >= b THEN a ELSE b

(***************************************************************************)
(* Posts.handleVote                                                        *)
(***************************************************************************)
VoteTypes == {"up", "down"}

VoteColumn(voteType) == IF voteType = "up" THEN "upvotes" ELSE "downvotes"

\* the post_votes rows of a user for a post
VotesOf(d, user, postId) ==
  {r \in d["post_votes"] : r.user_id = user /\ r.post_id = postId}

\* getUser, posts.find: the handler works on the post as last fetched
HandleVoteStart(s, voteType) ==
  /\ sess[s].page = "posts"
  /\ sess[s].pc = "idle"
  /\ sess' = [sess EXCEPT ![s].pc = "hv_select", ![s].arg = voteType,
                          ![s].snap = sess[s].cache]
  /\ UNCHANGED <<db, resp>>

\* fetch the user's existing vote; "no rows" (PGRST116) is not an error
HandleVoteSelect(s, ok) ==
  /\ sess[s].pc = "hv_select"
  /\ LET rows == Select(db, "post_votes", sess[s].user,
                        VotesOf(db, sess[s].user, ThePost)).rows
     IN IF ~ok \/ Cardinality(rows) > 1
        THEN sess' = Return(s)
        ELSE sess' = [sess EXCEPT
               ![s].pc = "hv_vote",
               ![s].existing = IF rows = {} THEN "none"
                               ELSE (CHOOSE r \in rows : TRUE).vote_type]
  /\ UNCHANGED <<db, resp>>

\* remove the vote, or add or switch it
HandleVoteWriteVote(s, ok) ==
  /\ sess[s].pc = "hv_vote"
  /\ LET u == sess[s].user
         res == IF sess[s].existing = sess[s].arg
                THEN Delete(db, "post_votes", u, VotesOf(db, u, ThePost))
                ELSE Upsert(db, "post_votes", u,
                            [user_id |-> u, post_id |-> ThePost, vote_type |-> sess[s].arg])
     IN IF ~ok \/ res.err
        THEN /\ sess' = Return(s)
             /\ db' = db
        ELSE /\ sess' = [sess EXCEPT ![s].pc = "hv_count"]
             /\ db' = res.d
  /\ UNCHANGED resp

\* variant that writes both counters of the post on every toggle
VoteUpdates_mutant(post, existing, voteType) ==
  [upvotes |-> IF voteType = "up" THEN post.upvotes + 1 ELSE post.upvotes,
   downvotes |-> IF voteType = "down" THEN post.downvotes + 1 ELSE post.downvotes]

\* the new counter values, computed from the post as last fetched
VoteUpdates(post, existing, voteType) ==
  IF existing = voteType
  THEN [c \in {VoteColumn(voteType)} |-> Max(post[VoteColumn(voteType)] - 1, 0)]
  ELSE IF existing = "up" /\ voteType = "down"
  THEN [upvotes |-> Max(post.upvotes - 1, 0), downvotes |-> post.downvotes + 1]
  ELSE IF existing = "down" /\ voteType = "up"
  THEN [upvotes |-> post.upvotes + 1, downvotes |-> Max(post.downvotes - 1, 0)]
  ELSE [c \in {VoteColumn(voteType)} |-> post[VoteColumn(voteType)] + 1]

\* write the counters to the posts row, then fetchPosts() without awaiting it
HandleVoteWriteCount(s, ok) ==
  /\ sess[s].pc = "hv_count"
  /\ LET updates == VoteUpdates(sess[s].snap, sess[s].existing, sess[s].arg)
         res == Update(db, "posts", sess[s].user,
                       {r \in db["posts"] : r.id = ThePost}, updates)
     IN /\ \A c \in DOMAIN updates : updates[c] <= MaxCount
        /\ IF ~ok \/ res.err
           THEN /\ sess' = Return(s)
                /\ db' = db
           ELSE /\ sess' = [Return(s) EXCEPT ![s].fetching = TRUE]
                /\ db' = res.d
  /\ UNCHANGED resp

\* the pending fetchPosts completes: setPosts(postsData)
FetchPosts(s) ==
  /\ sess[s].page = "posts"
  /\ sess[s].fetching
  /\ LET rows == Select(db, "posts", sess[s].user, {r \in db["posts"] : r.id = ThePost}).rows
         post == CHOOSE r \in rows : TRUE
     IN /\ rows # {}
        /\ sess' = [sess EXCEPT ![s].fetching = FALSE,
                                ![s].cache = [upvotes |-> post.upvotes,
                                              downvotes |-> post.downvotes]]
  /\ UNCHANGED <<db, resp>>

\* outcomes: whether a request reaches the backend (TRUE) or fails in transit
HandleVote(s, outcomes) ==
  \/ \E voteType \in VoteTypes : HandleVoteStart(s, voteType)
  \/ \E ok \in outcomes : HandleVoteSelect(s, ok)
  \/ \E ok \in outcomes : HandleVoteWriteVote(s, ok)
  \/ \E ok \in outcomes : HandleVoteWriteCount(s, ok)

\* every session shows the given page.  Sessions are interchangeable, and
\* so are the users other than user 1 (who owns the seeded rows): users are
\* taken in non-decreasing order, the others from user 2 on without gaps
InitSessions(page) ==
  /\ sess \in [Sessions -> {NewSession(u, page) : u \in Users}]
  /\ \A s \in Sessions : \A t \in Sessions : s <= t => sess[s].user <= sess[t].user
  /\ \A s \in Sessions :
       sess[s].user > 2 => \E t \in Sessions : sess[t].user = sess[s].user - 1

InitVote ==
  /\ db = SeededStore
  /\ resp = NoResp
  /\ InitSessions("posts")

NextVote ==
  \/ \E s \in Sessions : HandleVote(s, BOOLEAN)
  \/ \E s \in Sessions : FetchPosts(s)

SpecVote == InitVote /\ [][NextVote]_vars

\* one signed-in user toggling, every backend call succeeding
NextVoteOne ==
  \/ \E voteType \in VoteTypes : HandleVoteStart(1, voteType)
  \/ HandleVoteSelect(1, TRUE)
  \/ HandleVoteWriteVote(1, TRUE)
  \/ HandleVoteWriteCount(1, TRUE)
  \/ FetchPosts(1)

SpecVoteOne == InitVote /\ [][NextVoteOne]_vars

\* how far handleVote has come in a session: not started, at one of its three
\* awaits, or returned after its counter write (fetchPosts still pending)
RaceRank(s) ==
  CASE sess[s].pc = "hv_select" -> 1
    [] sess[s].pc = "hv_vote" -> 2
    [] sess[s].pc = "hv_count" -> 3
    [] sess[s].pc = "idle" /\ sess[s].fetching -> 4
    [] OTHER -> 0

\* the two sessions that click
Racers == {s \in Sessions : s <= 2}

\* session s is among the racers that have come least far, and is not done
RaceTurn(s) ==
  /\ sess[s].pc = "idle" => ~sess[s].fetching
  /\ \A t \in Racers : RaceRank(t) >= RaceRank(s)

\* two sessions click at the same time: every session reads the post and its
\* own vote before any session writes a vote, and every session writes its
\* vote before any session writes the counters; the fetches come back later
NextRace == \E s \in Racers : RaceTurn(s) /\ HandleVote(s, {TRUE})

SpecRace == InitVote /\ [][NextRace]_vars

(***************************************************************************)
(* TravelVlogs.handleReaction: no statement's error is looked at           *)
(***************************************************************************)
ReactionTypes == {"like", "dislike"}

ReactionColumn(reactionType) ==
  IF reactionType = "like" THEN "like_count" ELSE "dislike_count"

ReactionsOf(d, user, vlogId) ==
  {r \in d["vlog_reactions"] : r.user_id = user /\ r.vlog_id = vlogId}

\* getUser, vlogs.find: the vlog and the user's reaction as last fetched.
\* Every path of the handler ends in a new fetchVlogs(), whose setVlogs
\* replaces that of a fetch still in flight: such a fetch is dropped here.
HandleReactionStart(s, reactionType) ==
  /\ sess[s].page = "vlogs"
  /\ sess[s].pc = "idle"
  /\ sess' = [sess EXCEPT ![s].arg = reactionType,
                          ![s].snap = sess[s].cache,
                          ![s].fetching = FALSE,
                          ![s].pending = NoCache,
                          ![s].pc = IF sess[s].cache.user_reaction = "none"
                                    THEN "hr_insert" ELSE "hr_delete"]
  /\ UNCHANGED <<db, resp>>

\* remove the reaction (isRemovingReaction, or an existing other reaction)
HandleReactionDelete(s, ok) ==
  /\ sess[s].pc = "hr_delete"
  /\ LET u == sess[s].user
         res == Delete(db, "vlog_reactions", u, ReactionsOf(db, u, TheVlog))
     IN db' = IF ok THEN res.d ELSE db
  /\ sess' = [sess EXCEPT ![s].pc = "hr_decrement"]
  /\ UNCHANGED resp

\* write the fetched count of the old reaction minus one
HandleReactionDecrement(s, ok) ==
  /\ sess[s].pc = "hr_decrement"
  /\ LET col == ReactionColumn(sess[s].snap.user_reaction)
         res == Update(db, "travel_vlogs", sess[s].user,
                       {r \in db["travel_vlogs"] : r.id = TheVlog},
                       [c \in {col} |-> sess[s].snap[col] - 1])
     IN /\ sess[s].snap[col] - 1 >= -MaxCount
        /\ db' = IF ok THEN res.d ELSE db
  /\ sess' = IF sess[s].snap.user_reaction = sess[s].arg
             THEN [Return(s) EXCEPT ![s].fetching = TRUE, ![s].pending = NoCache]
             ELSE [sess EXCEPT ![s].pc = "hr_insert"]
  /\ UNCHANGED resp

\* add the new reaction
HandleReactionInsert(s, ok) ==
  /\ sess[s].pc = "hr_insert"
  /\ LET u == sess[s].user
         res == Insert(db, "vlog_reactions", u,
                       [user_id |-> u, vlog_id |-> TheVlog, reaction_type |-> sess[s].arg])
     IN db' = IF ok THEN res.d ELSE db
  /\ sess' = [sess EXCEPT ![s].pc = "hr_increment"]
  /\ UNCHANGED resp

\* write the fetched count of the new reaction plus one, then fetchVlogs()
\* without awaiting it
HandleReactionIncrement(s, ok) ==
  /\ sess[s].pc = "hr_increment"
  /\ LET col == ReactionColumn(sess[s].arg)
         res == Update(db, "travel_vlogs", sess[s].user,
                       {r \in db["travel_vlogs"] : r.id = TheVlog},
                       [c \in {col} |-> sess[s].snap[col] + 1])
     IN /\ sess[s].snap[col] + 1 <= MaxCount
        /\ db' = IF ok THEN res.d ELSE db
  /\ sess' = [Return(s) EXCEPT ![s].fetching = TRUE, ![s].pending = NoCache]
  /\ UNCHANGED resp

\* fetchVlogs, first query: the vlogs
FetchVlogsVlogs(s) ==
  /\ sess[s].page = "vlogs"
  /\ sess[s].pc = "idle"
  /\ sess[s].fetching
  /\ sess[s].pending = NoCache
  /\ LET rows == Select(db, "travel_vlogs", sess[s].user,
                        {r \in db["travel_vlogs"] : r.id = TheVlog}).rows
         vlog == CHOOSE r \in rows : TRUE
     IN /\ rows # {}
        /\ sess' = [sess EXCEPT ![s].pending = [like_count |-> vlog.like_count,
                                                dislike_count |-> vlog.dislike_count]]
  /\ UNCHANGED <<db, resp>>

\* fetchVlogs, second query: the user's reactions; setVlogs
FetchVlogsReactions(s) ==
  /\ sess[s].page = "vlogs"
  /\ sess[s].pc = "idle"
  /\ sess[s].fetching
  /\ sess[s].pending # NoCache
  /\ LET rows == Select(db, "vlog_reactions", sess[s].user,
                        ReactionsOf(db, sess[s].user, TheVlog)).rows
     IN sess' = [sess EXCEPT
          ![s].fetching = FALSE,
          ![s].pending = NoCache,
          ![s].cache = [like_count |-> sess[s].pending.like_count,
                        dislike_count |-> sess[s].pending.dislike_count,
                        user_reaction |-> IF rows = {} THEN "none"
                                          ELSE (CHOOSE r \in rows : TRUE).reaction_type]]
  /\ UNCHANGED <<db, resp>>

HandleReaction(s, outcomes) ==
  \/ \E reactionType \in ReactionTypes : HandleReactionStart(s, reactionType)
  \/ \E ok \in outcomes : HandleReactionDelete(s, ok)
  \/ \E ok \in outcomes : HandleReactionDecrement(s, ok)
  \/ \E ok \in outcomes : HandleReactionInsert(s, ok)
  \/ \E ok \in outcomes : HandleReactionIncrement(s, ok)

FetchVlogs(s) == FetchVlogsVlogs(s) \/ FetchVlogsReactions(s)

\* one signed-in user reacting, every backend call reaching the store
InitReactionOne ==
  /\ db = SeededStore
  /\ resp = NoResp
  /\ InitSessions("vlogs")

NextReactionOne ==
  \/ HandleReaction(1, {TRUE})
  \/ FetchVlogs(1)

SpecReactionOne == InitReactionOne /\ [][NextReactionOne]_vars

(***************************************************************************)
(* Events.handleRSVP: one statement, its error not looked at               *)
(***************************************************************************)
\* (the component as it stands last in Events.tsx: the local status is set
\* whether or not the statement took effect)
RsvpStatuses == {"going", "interested", "none"}

RsvpsOf(d, user, eventId) ==
  {r \in d["event_rsvps"] : r.event_id = eventId /\ r.user_id = user}

HandleRSVP(s, status, ok) ==
  /\ sess[s].page = "events"
  /\ sess[s].pc = "idle"
  /\ LET u == sess[s].user
         res == IF status = "none"
                THEN Delete(db, "event_rsvps", u, RsvpsOf(db, u, TheEvent))
                ELSE Upsert(db, "event_rsvps", u,
                            [event_id |-> TheEvent, user_id |-> u, status |-> status])
     IN db' = IF ok THEN res.d ELSE db
  /\ sess' = [sess EXCEPT ![s].cache = [status |-> status]]
  /\ UNCHANGED resp

(***************************************************************************)
(* The three toggle handlers, every session on the same page and every     *)
(* request reaching the backend                                            *)
(***************************************************************************)
Pages == {"posts", "vlogs", "events"}

InitToggle ==
  /\ db = SeededStore
  /\ resp = NoResp
  /\ \E page \in Pages : InitSessions(page)

NextToggle ==
  \/ \E s \in Sessions : HandleVote(s, {TRUE})
  \/ \E s \in Sessions : FetchPosts(s)
  \/ \E s \in Sessions : HandleReaction(s, {TRUE})
  \/ \E s \in Sessions : FetchVlogs(s)
  \/ \E s \in Sessions : \E status \in RsvpStatuses : HandleRSVP(s, status, TRUE)

SpecToggle == InitToggle /\ [][NextToggle]_vars

(***************************************************************************)
(* Matches.handleStartChat                                                 *)
(***************************************************************************)
\* .or(and(user1_id.eq.me, user2_id.eq.match), and(user1_id.eq.match, user2_id.eq.me))
ChatsBetween(d, me, matchId) ==
  {c \in d["chats"] : \/ c.user1_id = me /\ c.user2_id = matchId
                      \/ c.user1_id = matchId /\ c.user2_id = me}

\* navigate(`/chat/${id}`): the chat the session was last sent to, and with whom
Navigate(s, chatId, matchId) ==
  [Return(s) EXCEPT ![s].cache.chat = chatId, ![s].cache.match = matchId]

\* check if the chat already exists (maybeSingle: more than one row is an error)
HandleStartChatCheck(s, matchId, ok) ==
  /\ sess[s].page = "matches"
  /\ sess[s].pc = "idle"
  /\ matchId # sess[s].user
  /\ LET rows == Select(db, "chats", sess[s].user,
                        ChatsBetween(db, sess[s].user, matchId)).rows
     IN IF ~ok \/ Cardinality(rows) > 1
        THEN sess' = Return(s)
        ELSE IF rows # {}
        THEN sess' = Navigate(s, (CHOOSE c \in rows : TRUE).id, matchId)
        ELSE sess' = [sess EXCEPT ![s].pc = "sc_create", ![s].snap = [match |-> matchId]]
  /\ UNCHANGED <<db, resp>>

\* create the chat, smaller id first, and navigate to it
HandleStartChatCreate(s, ok) ==
  /\ sess[s].pc = "sc_create"
  /\ LET me == sess[s].user
         matchId == sess[s].snap.match
         res == Insert(db, "chats", me,
                       [id |-> NewId(db, "chats"),
                        user1_id |-> IF me < matchId THEN me ELSE matchId,
                        user2_id |-> IF me < matchId THEN matchId ELSE me])
         shown == Select(res.d, "chats", me, res.rows).rows
     IN IF ~ok \/ res.err \/ Cardinality(shown) # 1
        THEN /\ sess' = Return(s)
             /\ db' = IF ok THEN res.d ELSE db
        ELSE /\ sess' = Navigate(s, (CHOOSE c \in shown : TRUE).id, matchId)
             /\ db' = res.d
  /\ UNCHANGED resp

HandleStartChat(s) ==
  \/ \E matchId \in Users : \E ok \in BOOLEAN : HandleStartChatCheck(s, matchId, ok)
  \/ \E ok \in BOOLEAN : HandleStartChatCreate(s, ok)

InitChat ==
  /\ db = EmptyStore
  /\ resp = NoResp
  /\ InitSessions("matches")

NextChat == \E s \in Sessions : HandleStartChat(s)

SpecChat == InitChat /\ [][NextChat]_vars

(***************************************************************************)
(* Events.handleAddEvent and fetchEvents; profiles changing their role     *)
(***************************************************************************)
UserRoles == {"resident", "traveler"}

\* insert the event with added_by: user.id; on success fetchEvents() without
\* awaiting it.  A failed image upload or request throws before the store
\* is changed.
HandleAddEvent(s, ok) ==
  /\ sess[s].page = "events"
  /\ sess[s].pc = "idle"
  /\ LET u == sess[s].user
         new == [id |-> NewId(db, "events"), added_by |-> u, city_id |-> 1, content |-> 0]
         res == Insert(db, "events", u, new)
     IN IF ~ok
        THEN UNCHANGED <<db, resp, sess>>
        ELSE /\ Cardinality(res.d["events"]) <= MaxRows
             /\ db' = res.d
             /\ resp' = Response("INSERT", "events", u, new, res)
             /\ sess' = IF res.err THEN sess ELSE [sess EXCEPT ![s].fetching = TRUE]

\* the status fetchEvents derives for the event: that of the RSVP whose
\* profile's username equals the user's id
FetchedRsvpStatus(d, userId, eventId) ==
  LET mine == {r \in d["event_rsvps"] :
                 /\ r.event_id = eventId
                 /\ \E p \in d["profiles"] : p.id = r.user_id /\ p.username = userId}
  IN IF mine = {} THEN "none" ELSE (CHOOSE r \in mine : TRUE).status

\* the pending fetchEvents completes: setEvents, setUserRsvpStatus
FetchEvents(s) ==
  /\ sess[s].page = "events"
  /\ sess[s].fetching
  /\ sess' = [sess EXCEPT ![s].fetching = FALSE,
                          ![s].cache = [status |-> FetchedRsvpStatus(db, sess[s].user, TheEvent)]]
  /\ UNCHANGED <<db, resp>>

\* any client inserts an event row of its choosing through the API
InsertEvent(uid, addedBy) ==
  /\ LET new == [id |-> NewId(db, "events"), added_by |-> addedBy, city_id |-> 1, content |-> 0]
         res == Insert(db, "events", uid, new)
     IN /\ Cardinality(res.d["events"]) <= MaxRows
        /\ db' = res.d
        /\ resp' = Response("INSERT", "events", uid, new, res)
  /\ UNCHANGED sess

\* a client sets the role column of a profile
UpdateRole(uid, id, role) ==
  /\ LET res == Update(db, "profiles", uid, {p \in db["profiles"] : p.id = id},
                       [role |-> role])
     IN /\ res.d # db
        /\ db' = res.d
  /\ resp' = NoResp
  /\ UNCHANGED sess

InitEvents ==
  /\ db = SeededStore
  /\ resp = NoResp
  /\ InitSessions("events")

NextEvents ==
  \/ \E s \in Sessions : \E ok \in BOOLEAN : HandleAddEvent(s, ok)
  \/ \E s \in Sessions : FetchEvents(s)
  \/ \E s \in Sessions : \E status \in RsvpStatuses : \E ok \in BOOLEAN :
       HandleRSVP(s, status, ok)
  \/ \E uid \in Actors : \E addedBy \in Users : InsertEvent(uid, addedBy)
  \/ \E uid \in Actors : \E id \in Users : \E role \in UserRoles : UpdateRole(uid, id, role)

SpecEvents == InitEvents /\ [][NextEvents]_vars

(***************************************************************************)
(* Matches.fetchMatches, in the two forms the repository holds             *)
(***************************************************************************)
MatchCities == {1, 2}
Interests == {{}, {1}}

\* the current user's profile row, as fetchCurrentUser reads it
CurrentUser(d, s) == CHOOSE p \in d["profiles"] : p.id = sess[s].user

\* Matches.tsx step 1: the cities the current user has joined
FetchMatchesCities(s) ==
  /\ sess[s].page = "matches"
  /\ sess[s].pc = "idle"
  /\ LET me == sess[s].user
         userCities == Select(db, "city_members", me,
                              {m \in db["city_members"] : m.profile_id = me}).rows
         cityIds == {m.city_id : m \in userCities}
     IN IF cityIds = {}
        THEN sess' = [sess EXCEPT ![s].cache.matches = {}]
        ELSE sess' = [sess EXCEPT ![s].pc = "fm_members",
                                  ![s].snap = [cityIds |-> cityIds, memberIds |-> {}]]
  /\ UNCHANGED <<db, resp>>

\* Matches.tsx step 2, one turn of the loop: the members of a city other
\* than the current user
FetchMatchesMembers(s) ==
  /\ sess[s].pc = "fm_members"
  /\ LET me == sess[s].user
         cityId == CHOOSE c \in sess[s].snap.cityIds :
                     \A x \in sess[s].snap.cityIds : c <= x
         cityMembers == Select(db, "city_members", me,
                               {m \in db["city_members"] : m.city_id = cityId}).rows
         memberIds == sess[s].snap.memberIds
                        \cup {m.profile_id : m \in {x \in cityMembers : x.profile_id # me}}
         rest == sess[s].snap.cityIds \ {cityId}
     IN IF rest # {}
        THEN sess' = [sess EXCEPT ![s].snap = [cityIds |-> rest, memberIds |-> memberIds]]
        ELSE IF memberIds = {}
        THEN sess' = [Return(s) EXCEPT ![s].cache.matches = {}]
        ELSE sess' = [sess EXCEPT ![s].pc = "fm_profiles",
                                  ![s].snap = [cityIds |-> {}, memberIds |-> memberIds]]
  /\ UNCHANGED <<db, resp>>

\* Matches.tsx step 3: the profiles of the members found; setMatches
FetchMatchesProfiles(s) ==
  /\ sess[s].pc = "fm_profiles"
  /\ LET rows == Select(db, "profiles", sess[s].user,
                        {p \in db["profiles"] : p.id \in sess[s].snap.memberIds}).rows
     IN sess' = [Return(s) EXCEPT ![s].cache.matches = {p.id : p \in rows}]
  /\ UNCHANGED <<db, resp>>

\* the other form: one query on profiles, filtered by the current user's
\* city_id and interests where they are set; setMatches
FetchMatchesByProfile(s) ==
  /\ sess[s].page = "matches"
  /\ sess[s].pc = "idle"
  /\ LET cu == CurrentUser(db, s)
         hasCity == cu.city_id # NULL
         hasInterests == cu.interests # {}
         rows == Select(db, "profiles", sess[s].user,
                   {p \in db["profiles"] :
                      /\ p.id # cu.id
                      /\ hasCity => p.city_id = cu.city_id
                      /\ (hasInterests /\ hasCity)
                           => (p.city_id = cu.city_id \/ p.interests \cap cu.interests # {})
                      /\ (hasInterests /\ ~hasCity) => p.interests \cap cu.interests # {}}).rows
     IN sess' = [sess EXCEPT ![s].cache.matches = {p.id : p \in rows}]
  /\ UNCHANGED <<db, resp>>

\* a store with memberships, profile cities and interests as the users may
\* have set them
MatchStores ==
  {[t \in TableNames \cup {"city_members"} |->
      CASE t = "cities" -> {[id |-> c, name |-> c, country |-> 0] : c \in MatchCities}
        [] t = "profiles" ->
             {[id |-> u, username |-> InitialUsername(u), role |-> Roles[u],
               city_id |-> city[u], interests |-> interests[u]] : u \in Users}
        [] t = "city_members" -> members
        [] OTHER -> {}] :
     members \in SUBSET [profile_id : Users, city_id : MatchCities],
     city \in [Users -> {NULL, 1}],
     interests \in [Users -> Interests]}

InitMatches ==
  /\ db \in MatchStores
  /\ resp = NoResp
  /\ sess = [s \in Sessions |-> NewSession(1, "matches")]

NextMatches ==
  \/ FetchMatchesCities(1)
  \/ FetchMatchesMembers(1)
  \/ FetchMatchesProfiles(1)
  \/ FetchMatchesByProfile(1)

SpecMatches == InitMatches /\ [][NextMatches]_vars

(***************************************************************************)
(* Deleting parent rows: Posts.handleDeletePost, DELETE statements of the  *)
(* clients, and of the role that owns the tables                           *)
(***************************************************************************)
\* the role the migrations run as: row level security does not apply to it
TableOwner == NumUsers + 1

ParentTables ==
  {"cities", "profiles", "posts", "events", "travel_plans", "travel_vlogs", "chats"}

\* DELETE by the table owner: no policy is consulted, the references are
DeleteAsOwner(d, t, matching) ==
  LET targets == {r \in d[t] : r \in matching}
      gone == CascadeClosure(d, {<<t, r>> : r \in targets})
  IN IF RestrictViolated(d, gone)
     THEN Result(d, TRUE, {})
     ELSE Result([x \in DOMAIN d |-> {r \in d[x] : <<x, r>> \notin gone}],
                 FALSE, targets)

\* a signed-in user adds a row of their own
AddRow(uid, t) ==
  /\ RowCount(db) < MaxRows
  /\ InScope(db, t)
  /\ \E new \in Candidates(db, t) :
       LET res == Insert(db, t, uid, new)
       IN /\ ~res.err
          /\ db' = res.d
  /\ resp' = NoResp
  /\ UNCHANGED sess

\* DELETE FROM t WHERE id = ... sent by a client or by the table owner; one
\* behaviour deletes at most one of the profiles and cities it starts with
DeleteParent(uid, t) ==
  /\ t \in {"profiles", "cities"}
       => db["profiles"] = EmptyStore["profiles"] /\ db["cities"] = EmptyStore["cities"]
  /\ \E k \in db[t] :
       LET res == IF uid = TableOwner THEN DeleteAsOwner(db, t, {k})
                                      ELSE Delete(db, t, uid, {k})
       IN /\ db' = res.d
          /\ resp' = Response("DELETE", t, uid, k, res)
  /\ UNCHANGED sess

\* the author check on the listed post (a post's author_id never changes),
\* then the delete of the posts row; on success the post leaves the list
HandleDeletePost(s, ok) ==
  /\ sess[s].page = "posts"
  /\ sess[s].pc = "idle"
  /\ sess[s].cache # NoCache
  /\ \E post \in {r \in db["posts"] : r.id = ThePost} :
       LET u == sess[s].user
           res == Delete(db, "posts", u, {post})
       IN IF post.author_id # u \/ ~ok
          THEN UNCHANGED <<db, resp, sess>>
          ELSE /\ db' = res.d
               /\ resp' = Response("handleDeletePost", "posts", u, post, res)
               /\ sess' = IF res.err THEN sess ELSE [sess EXCEPT ![s].cache = NoCache]

\* the Posts pages are mounted on a store with the seeded post or with none
InitDelete ==
  /\ db \in {EmptyStore, [EmptyStore EXCEPT !["posts"] = SeededStore["posts"]]}
  /\ resp = NoResp
  /\ \E users \in [Sessions -> Users] :
       sess = [s \in Sessions |->
                 [NewSession(users[s], "posts") EXCEPT
                    !.cache = IF db["posts"] = {} THEN NoCache ELSE @]]
  /\ \A s \in Sessions : sess[s].user <= s

NextDelete ==
  \/ \E uid \in Users : \E t \in WritableTables : AddRow(uid, t)
  \/ \E uid \in Actors \cup {TableOwner} : \E t \in ParentTables : DeleteParent(uid, t)
  \/ \E s \in Sessions : \E ok \in BOOLEAN : HandleDeletePost(s, ok)

SpecDelete == InitDelete /\ [][NextDelete]_vars

(***************************************************************************)
(* TravelPlans.handleAddPlan                                               *)
(***************************************************************************)
\* the form's plan for the page's city, owned by the signed-in user
NewPlan(d, user, startDate, endDate) ==
  [id |-> NewId(d, "travel_plans"), user_id |-> user, city_id |-> 1, content |-> 0,
   start_date |-> startDate, end_date |-> endDate]

\* insert the plan; on an error alert and stay, else fetchTravelPlans()
\* without awaiting it
HandleAddPlan(s, startDate, endDate, ok) ==
  /\ sess[s].page = "plans"
  /\ Cardinality(db["travel_plans"]) < MaxRows
  /\ LET u == sess[s].user
         new == NewPlan(db, u, startDate, endDate)
         res == IF ok THEN Insert(db, "travel_plans", u, new) ELSE Result(db, TRUE, {})
     IN /\ db' = res.d
        /\ resp' = Response("handleAddPlan", "travel_plans", u, new, res)
        /\ sess' = IF res.err THEN sess ELSE [sess EXCEPT ![s].fetching = TRUE]

\* the pending fetchTravelPlans completes: setPlans(data)
FetchTravelPlans(s) ==
  /\ sess[s].page = "plans"
  /\ sess[s].fetching
  /\ sess' = [sess EXCEPT
       ![s].fetching = FALSE,
       ![s].cache = [plans |-> {r.id : r \in Select(db, "travel_plans", sess[s].user,
                                       {p \in db["travel_plans"] : p.city_id = 1}).rows}]]
  /\ UNCHANGED <<db, resp>>

\* a client changes a date of a plan with an UPDATE of its own
UpdatePlanDate(uid) ==
  /\ \E k \in db["travel_plans"] :
       \E patch \in [start_date : Dates] \cup [end_date : Dates] :
         LET res == Update(db, "travel_plans", uid, {k}, patch)
         IN /\ db' = res.d
            /\ resp' = NoResp
  /\ UNCHANGED sess

InitPlans ==
  /\ db = EmptyStore
  /\ resp = NoResp
  /\ InitSessions("plans")

NextPlans ==
  \/ \E s \in Sessions : \E startDate \in Dates : \E endDate \in Dates :
       \E ok \in BOOLEAN : HandleAddPlan(s, startDate, endDate, ok)
  \/ \E s \in Sessions : FetchTravelPlans(s)
  \/ \E uid \in Actors : UpdatePlanDate(uid)

SpecPlans == InitPlans /\ [][NextPlans]_vars

(***************************************************************************)
(* File uploads: handleAddPost, handleAddEvent, handleAddVlog              *)
(***************************************************************************)
\* the first folder of an object key: a user's id, "posts" or "events"
PostsFolder == NumUsers + 1
EventsFolder == NumUsers + 2

\* Date.now() / Math.random() as the file name
FileNames == {1, 2}

\* a video_url typed into the form instead of a file
ExternalUrl == [folder |-> NULL, file |-> NULL]
NoUrl == [folder |-> NULL, file |-> 0]

videos_insert_check(uid, o) == Authenticated(uid) /\ o.name.folder = uid

\* no migration creates the post-images bucket or its policies
post_images_insert_check(uid, o) == Authenticated(uid)

\* storage.upload without upsert: the key must be new
Upload(d, uid, bucket, name) ==
  LET o == [bucket |-> bucket, name |-> name, owner |-> uid]
      allowed == IF bucket = "videos" THEN videos_insert_check(uid, o)
                                      ELSE post_images_insert_check(uid, o)
  IN IF allowed /\ \A x \in d["objects"] : ~(x.bucket = bucket /\ x.name = name)
     THEN Result([d EXCEPT !["objects"] = @ \cup {o}], FALSE, {o})
     ELSE Result(d, TRUE, {})

AddTable(page) ==
  CASE page = "posts" -> "posts" [] page = "events" -> "events" [] OTHER -> "travel_vlogs"

UploadBucket(page) == IF page = "vlogs" THEN "videos" ELSE "post-images"

UploadFolder(page, user) ==
  CASE page = "posts" -> PostsFolder [] page = "events" -> EventsFolder [] OTHER -> user

\* the row the form inserts, with the url of its file
AddedRow(d, page, user, url) ==
  CASE page = "posts" ->
         [id |-> NewId(d, "posts"), author_id |-> user, city_id |-> 1, content |-> 0,
          upvotes |-> 0, downvotes |-> 0, image_url |-> url]
    [] page = "events" ->
         [id |-> NewId(d, "events"), added_by |-> user, city_id |-> 1, content |-> 0,
          image_url |-> url]
    [] OTHER ->
         [id |-> NewId(d, "travel_vlogs"), user_id |-> user, city_id |-> 1, content |-> 0,
          like_count |-> 0, dislike_count |-> 0, video_url |-> url]

\* submit with a file chosen (upload first) or without (insert at once)
HandleAddSubmit(s, hasFile) ==
  /\ sess[s].pc = "idle"
  /\ sess' = [sess EXCEPT
       ![s].pc = IF hasFile THEN "add_upload" ELSE "add_insert",
       ![s].snap = IF sess[s].page = "vlogs" THEN ExternalUrl ELSE NoUrl]
  /\ UNCHANGED <<db, resp>>

\* variant that goes on to the insert whatever the upload returned
HandleAddUpload_mutant(s, file, ok) ==
  /\ sess[s].pc = "add_upload"
  /\ LET u == sess[s].user
         name == [folder |-> UploadFolder(sess[s].page, u), file |-> file]
         res == IF ok THEN Upload(db, u, UploadBucket(sess[s].page), name)
                      ELSE Result(db, TRUE, {})
     IN /\ Cardinality(res.d["objects"]) <= MaxRows
        /\ db' = res.d
        /\ resp' = Response("UPLOAD", "objects", u, name, res)
        /\ sess' = [sess EXCEPT ![s].pc = "add_insert", ![s].snap = name]

\* the upload; on an error the handler throws and returns
HandleAddUpload(s, file, ok) ==
  /\ sess[s].pc = "add_upload"
  /\ LET u == sess[s].user
         name == [folder |-> UploadFolder(sess[s].page, u), file |-> file]
         res == IF ok THEN Upload(db, u, UploadBucket(sess[s].page), name)
                      ELSE Result(db, TRUE, {})
     IN /\ Cardinality(res.d["objects"]) <= MaxRows
        /\ db' = res.d
        /\ resp' = Response("UPLOAD", "objects", u, name, res)
        /\ sess' = IF res.err THEN Return(s)
                   ELSE [sess EXCEPT ![s].pc = "add_insert", ![s].snap = name]

\* the insert of the row; on success the list is fetched again, not awaited
HandleAddInsert(s, ok) ==
  /\ sess[s].pc = "add_insert"
  /\ LET u == sess[s].user
         t == AddTable(sess[s].page)
         new == AddedRow(db, sess[s].page, u, sess[s].snap)
         res == IF ok THEN Insert(db, t, u, new) ELSE Result(db, TRUE, {})
     IN /\ Cardinality(res.d[t]) <= MaxRows
        /\ db' = res.d
        /\ resp' = Response("INSERT", t, u, new, res)
        /\ sess' = IF res.err THEN Return(s) ELSE [Return(s) EXCEPT ![s].fetching = TRUE]

\* the seeded store with the storage buckets, empty
InitUpload ==
  /\ db = [t \in TableNames \cup {"objects"} |->
            IF t = "objects" THEN {} ELSE SeededStore[t]]
  /\ resp = NoResp
  /\ \E page \in Pages : InitSessions(page)

NextUpload ==
  \/ \E s \in Sessions : \E hasFile \in BOOLEAN : HandleAddSubmit(s, hasFile)
  \/ \E s \in Sessions : \E file \in FileNames : \E ok \in BOOLEAN :
       HandleAddUpload(s, file, ok)
  \/ \E s \in Sessions : \E ok \in BOOLEAN : HandleAddInsert(s, ok)
  \/ \E s \in Sessions : FetchPosts(s)
  \/ \E s \in Sessions : FetchVlogs(s)
  \/ \E s \in Sessions : FetchEvents(s)

SpecUpload == InitUpload /\ [][NextUpload]_vars

(***************************************************************************)
(* Profile.updateProfile                                                   *)
(***************************************************************************)
\* the names typed into the form: none, a name nobody has, user 1's name
NoUsername == NULL
FreeUsername == 0
FormUsernames == {NoUsername, FreeUsername, InitialUsername(1)}

\* the names and countries of the cities clients add
CityNames == {1, 2}
Countries == {0, 1}

\* the availability check; .single() with no row (PGRST116) is no error
UpdateProfileCheck(s, username, ok) ==
  /\ sess[s].page = "profile"
  /\ sess[s].pc = "idle"
  /\ LET rows == Select(db, "profiles", sess[s].user,
                        {p \in db["profiles"] :
                           p.username = username /\ p.id # sess[s].user}).rows
     IN sess' = IF username = NoUsername \/ ~ok \/ rows # {}
                THEN sess
                ELSE [sess EXCEPT ![s].pc = "up_upsert", ![s].arg = username]
  /\ resp' = NoResp
  /\ UNCHANGED db

\* the upsert of the form into the user's profiles row
UpdateProfileUpsert(s, ok) ==
  /\ sess[s].pc = "up_upsert"
  /\ LET u == sess[s].user
         new == Patch(CHOOSE p \in db["profiles"] : p.id = u, [username |-> sess[s].arg])
         res == IF ok THEN Upsert(db, "profiles", u, new) ELSE Result(db, TRUE, {})
     IN /\ db' = res.d
        /\ resp' = Response("updateProfile", "profiles", u, new, res)
  /\ sess' = Return(s)

\* a client changes a username with an UPDATE of its own
UpdateUsername(uid, id, username) ==
  /\ LET res == Update(db, "profiles", uid, {p \in db["profiles"] : p.id = id},
                       [username |-> username])
     IN /\ res.d # db
        /\ db' = res.d
  /\ resp' = NoResp
  /\ UNCHANGED sess

\* a client adds a city
InsertCity(uid, name, country) ==
  /\ LET new == [id |-> NewId(db, "cities"), name |-> name, country |-> country]
         res == Insert(db, "cities", uid, new)
     IN /\ Cardinality(res.d["cities"]) <= MaxRows
        /\ db' = res.d
        /\ resp' = Response("INSERT", "cities", uid, new, res)
  /\ UNCHANGED sess

InitProfile ==
  /\ db = EmptyStore
  /\ resp = NoResp
  /\ InitSessions("profile")

NextProfile ==
  \/ \E s \in Sessions : \E username \in FormUsernames : \E ok \in BOOLEAN :
       UpdateProfileCheck(s, username, ok)
  \/ \E s \in Sessions : \E ok \in BOOLEAN : UpdateProfileUpsert(s, ok)
  \/ \E uid \in Actors : \E id \in Users : \E username \in FormUsernames \ {NoUsername} :
       UpdateUsername(uid, id, username)
  \/ \E uid \in Actors : \E name \in CityNames : \E country \in Countries :
       InsertCity(uid, name, country)

SpecProfile == InitProfile /\ [][NextProfile]_vars

(***************************************************************************)
(* The Chat view: the displayed list under handleSendMessage, the push     *)
(* subscription and the periodic fetchMessages                             *)
(***************************************************************************)
TheChat == 1

\* sends of one mounted view
MaxSends == 1

\* the id of an optimistic entry, Date.now().toString(): never a stored id
TempId == 0

\* one chat, between users 1 and 2, without messages
ChatStore ==
  [EmptyStore EXCEPT !["chats"] = {[id |-> TheChat, user1_id |-> 1, user2_id |-> 2]}]

\* the text of the k-th message typed in view s
Content(s, k) == (s - 1) * MaxSends + k

Displayed(r) == [id |-> r.id, content |-> r.content]

\* .order('created_at', { ascending: true })
RECURSIVE OrderByCreatedAt(_)
OrderByCreatedAt(rows) ==
  IF rows = {} THEN <<>>
  ELSE LET first == CHOOSE r \in rows : \A q \in rows : r.id <= q.id
       IN <<Displayed(first)>> \o OrderByCreatedAt(rows \ {first})

\* the views subscribed to INSERTs of the chat that may see the row
Subscribers(d, row) ==
  {t \in Sessions : sess[t].page = "chat" /\ SelectUsing(d, "messages", sess[t].user, row)}

\* getUser, then the optimistic append: setMessages([...current, optimisticMessage])
HandleSendMessageStart(s) ==
  /\ sess[s].page = "chat"
  /\ sess[s].pc = "idle"
  /\ sess[s].cache.sent < MaxSends
  /\ LET content == Content(s, sess[s].cache.sent + 1)
     IN sess' = [sess EXCEPT
          ![s].pc = "send_insert",
          ![s].cache.sent = @ + 1,
          ![s].cache.messages = Append(@, [id |-> TempId, content |-> content])]
  /\ UNCHANGED <<db, resp>>

\* the insert into messages; an error is logged and the list left as it is
HandleSendMessageInsert(s, ok) ==
  /\ sess[s].pc = "send_insert"
  /\ LET u == sess[s].user
         new == [id |-> NewId(db, "messages"), chat_id |-> TheChat, sender_id |-> u,
                 content |-> Content(s, sess[s].cache.sent)]
         res == IF ok THEN Insert(db, "messages", u, new) ELSE Result(db, TRUE, {})
     IN /\ Cardinality(res.d["messages"]) <= MaxRows
        /\ db' = res.d
        /\ resp' = Response("handleSendMessage", "messages", u, new, res)
        /\ sess' = [t \in Sessions |->
                     IF ~res.err /\ t \in Subscribers(res.d, new)
                     THEN [Return(s)[t] EXCEPT !.cache.events = @ \cup {new}]
                     ELSE Return(s)[t]]

\* the subscription's callback: setMessages([...current, payload.new])
PushInsert(s) ==
  /\ sess[s].page = "chat"
  /\ \E e \in sess[s].cache.events :
       sess' = [sess EXCEPT ![s].cache.events = @ \ {e},
                            ![s].cache.messages = Append(@, Displayed(e))]
  /\ resp' = NoResp
  /\ UNCHANGED db

\* setInterval(fetchMessages, 5000)
Poll(s) ==
  /\ sess[s].page = "chat"
  /\ ~sess[s].fetching
  /\ sess' = [sess EXCEPT ![s].fetching = TRUE, ![s].pending = NoCache]
  /\ resp' = NoResp
  /\ UNCHANGED db

\* fetchMessages: the chat (.single()), then its messages; an error of either
\* ends the call with the list unchanged
FetchMessagesSelect(s, ok) ==
  /\ sess[s].page = "chat"
  /\ sess[s].fetching
  /\ sess[s].pending = NoCache
  /\ LET u == sess[s].user
         chat == Select(db, "chats", u, {c \in db["chats"] : c.id = TheChat}).rows
         rows == Select(db, "messages", u,
                        {r \in db["messages"] : r.chat_id = TheChat}).rows
     IN sess' = IF ~ok \/ Cardinality(chat) # 1
                THEN [sess EXCEPT ![s].fetching = FALSE]
                ELSE [sess EXCEPT ![s].pending = [messages |-> OrderByCreatedAt(rows)]]
  /\ resp' = NoResp
  /\ UNCHANGED db

\* variant that keeps the list it has
FetchMessagesSet_mutant(s) ==
  /\ sess[s].page = "chat"
  /\ sess[s].fetching
  /\ sess[s].pending # NoCache
  /\ sess' = [sess EXCEPT ![s].fetching = FALSE, ![s].pending = NoCache]
  /\ resp' = NoResp
  /\ UNCHANGED db

\* setMessages(messages || [])
FetchMessagesSet(s) ==
  /\ sess[s].page = "chat"
  /\ sess[s].fetching
  /\ sess[s].pending # NoCache
  /\ sess' = [sess EXCEPT ![s].fetching = FALSE, ![s].pending = NoCache,
                          ![s].cache.messages = sess[s].pending.messages]
  /\ resp' = NoResp
  /\ UNCHANGED db

InitChatView ==
  /\ db = ChatStore
  /\ resp = NoResp
  /\ InitSessions("chat")

NextChatView ==
  \/ \E s \in Sessions : HandleSendMessageStart(s)
  \/ \E s \in Sessions : \E ok \in BOOLEAN : HandleSendMessageInsert(s, ok)
  \/ \E s \in Sessions : PushInsert(s)
  \/ \E s \in Sessions : Poll(s)
  \/ \E s \in Sessions : \E ok \in BOOLEAN : FetchMessagesSelect(s, ok)
  \/ \E s \in Sessions : FetchMessagesSet(s)

SpecChatView == InitChatView /\ [][NextChatView]_vars

\* the two participants, each with the chat open; view 1 is the one that sends
InitChatLive ==
  /\ db = ChatStore
  /\ resp = NoResp
  /\ sess = [s \in Sessions |-> NewSession(IF s = 1 THEN 1 ELSE 2, "chat")]

NextChatLive ==
  \/ HandleSendMessageStart(1)
  \/ \E ok \in BOOLEAN : HandleSendMessageInsert(1, ok)
  \/ \E s \in Sessions : PushInsert(s)
  \/ \E s \in Sessions : Poll(s)
  \/ \E s \in Sessions : \E ok \in BOOLEAN : FetchMessagesSelect(s, ok)
  \/ \E s \in Sessions : FetchMessagesSet(s)

\* the interval timer keeps firing, a call in flight returns, and the backend
\* does not fail every poll
SpecChatViewLive ==
  /\ InitChatLive
  /\ [][NextChatLive]_vars
  /\ \A s \in Sessions :
       /\ WF_vars(Poll(s))
       /\ SF_vars(FetchMessagesSelect(s, TRUE))
       /\ WF_vars(FetchMessagesSet(s))


(***************************************************************************)
(* Transport.searchFlights and its localStorage cache.  The store of this  *)
(* specification is the browser's: localStorage and the clock (Date.now(), *)
(* in minutes), shared by the tabs.                                        *)
(***************************************************************************)
\* 5 * 60 * 1000 ms
CacheMinutes == 5

\* the clock runs from 0 to MaxTime
MaxTime == 5

NoDate == ""
PastDate == "2020-01-01"
FutureDate == "2999-01-01"

Origins == {"", "DEL", "del"}
Destinations == {"", "MAA"}
DepartureDates == {NoDate, PastDate, FutureDate}

\* /^[A-Z]{3}$/.test(code)
IsIata(code) == code \in {"DEL", "MAA"}

\* new Date(departureDate), on the scale of the clock
DateValue(date) == IF date = FutureDate THEN MaxTime + 1 ELSE 0

\* `${origin}-${destination}-${departureDate}`
cacheKey(origin, destination, departureDate) ==
  origin \o "-" \o destination \o "-" \o departureDate

\* JSON.parse(localStorage.getItem(cacheKey) || 'null'): the entries of the key
cachedData(d, key) == {e \in d["localStorage"] : e.key = key}

\* Date.now() - cachedData.timestamp < 5 * 60 * 1000
Fresh(d, e) == d["now"] - e.timestamp < CacheMinutes

\* what the flight API answers: an error, a body without data, or data whose
\* lists (absent lists count as empty) hold zero or more flights
ApiResponses ==
  {[status |-> st, topFlights |-> <<>>, otherFlights |-> <<>>] : st \in {"error", "nodata"}}
  \cup [status : {"data"}, topFlights : {<<>>, <<1>>}, otherFlights : {<<>>, <<2>>}]

\* [...(topFlights || []), ...(otherFlights || [])]
allFlights(response) == response.topFlights \o response.otherFlights

\* localStorage.setItem(cacheKey, ...): the entry of the key is replaced
SetItem(d, key, flights) ==
  [d EXCEPT !["localStorage"] =
     {e \in @ : e.key # key} \cup {[key |-> key, flights |-> flights, timestamp |-> d["now"]]}]

SearchOutcome(op, key, err) ==
  [op |-> op, tbl |-> "localStorage", uid |-> Anon, arg |-> <<key>>, err |-> err, rows |-> {}]

\* searchFlights up to the request: the cache, then the checks of the input
searchFlightsStart(s, origin, destination, departureDate) ==
  /\ sess[s].page = "transport"
  /\ sess[s].pc = "idle"
  /\ LET key == cacheKey(origin, destination, departureDate)
         hit == {e \in cachedData(db, key) : Fresh(db, e)}
     IN IF hit # {}
        THEN /\ sess' = [sess EXCEPT ![s].cache.flights = (CHOOSE e \in hit : TRUE).flights]
             /\ resp' = SearchOutcome("cached", key, FALSE)
        ELSE IF \/ origin = "" \/ destination = "" \/ departureDate = NoDate
                \/ ~IsIata(origin) \/ ~IsIata(destination)
                \/ DateValue(departureDate) <= db["now"]
        THEN /\ sess' = [sess EXCEPT ![s].cache.error = "invalid"]
             /\ resp' = SearchOutcome("invalid", key, TRUE)
        ELSE /\ sess' = [sess EXCEPT ![s].pc = "sf_request", ![s].cache.key = key]
             /\ resp' = SearchOutcome("request", key, FALSE)
  /\ UNCHANGED db

\* the answer of axios.request: the list is shown and stored, or emptied with
\* a message
searchFlightsResponse(s, response) ==
  /\ sess[s].pc = "sf_request"
  /\ IF response.status = "data"
     THEN /\ sess' = [Return(s) EXCEPT ![s].cache.flights = allFlights(response)]
          /\ db' = SetItem(db, sess[s].cache.key, allFlights(response))
          /\ resp' = SearchOutcome("stored", sess[s].cache.key, FALSE)
     ELSE /\ sess' = [Return(s) EXCEPT
                        ![s].cache.flights = <<>>,
                        ![s].cache.error = IF response.status = "error" THEN "failed"
                                           ELSE "none found"]
          /\ db' = db
          /\ resp' = SearchOutcome(response.status, sess[s].cache.key, TRUE)

\* a minute passes
Tick ==
  /\ db["now"] < MaxTime
  /\ db' = [db EXCEPT !["now"] = @ + 1]
  /\ resp' = NoResp
  /\ UNCHANGED sess

InitTransport ==
  /\ db = [localStorage |-> {}, now |-> 0]
  /\ resp = NoResp
  /\ sess = [s \in Sessions |-> NewSession(1, "transport")]

NextTransport ==
  \/ \E s \in Sessions : \E origin \in Origins : \E destination \in Destinations :
       \E departureDate \in DepartureDates :
         searchFlightsStart(s, origin, destination, departureDate)
  \/ \E s \in Sessions : \E response \in ApiResponses : searchFlightsResponse(s, response)
  \/ Tick

SpecTransport == InitTransport /\ [][NextTransport]_vars


(***************************************************************************)
(* CommunityWiki.handleVote: the poll of one wiki entry                    *)
(***************************************************************************)
TheEntry == 1

\* entry.poll_answers, and a choice that is not among them
PollAnswers == {"yes", "no"}
Choices == PollAnswers \cup {"other"}

\* tallies run from 0 to MaxTally
MaxTally == MaxCount + 1

WikiStore ==
  [community_wiki |-> {[id |-> TheEntry, poll_votes |-> [a \in PollAnswers |-> 0]]}]

StoredVotes(d) == (CHOOSE e \in d["community_wiki"] : e.id = TheEntry).poll_votes

\* { ...entry.poll_votes } with updatedVotes[choice] = (updatedVotes[choice] || 0) + 1
updatedVotes(votes, choice) == [votes EXCEPT ![choice] = @ + 1]

\* .from("community_wiki").update({ poll_votes }).eq("id", entry.id)
UpdatePollVotes(d, id, votes) ==
  [d EXCEPT !["community_wiki"] =
     {IF e.id = id THEN [e EXCEPT !.poll_votes = votes] ELSE e : e \in @}]

\* handleVote: the entry as last fetched, one UPDATE of the whole tally, then
\* window.location.reload() if it succeeded
WikiHandleVote(s, choice, ok) ==
  /\ sess[s].page = "wiki"
  /\ ~sess[s].fetching
  /\ IF choice \notin PollAnswers
     THEN /\ resp' = [NoResp EXCEPT !.op = "handleVote", !.arg = <<choice>>, !.err = TRUE]
          /\ UNCHANGED <<db, sess>>
     ELSE LET votes == updatedVotes(sess[s].cache.poll_votes, choice)
          IN /\ votes[choice] <= MaxTally
             /\ resp' = [NoResp EXCEPT !.op = "handleVote", !.arg = <<choice>>, !.err = ~ok]
             /\ db' = IF ok THEN UpdatePollVotes(db, TheEntry, votes) ELSE db
             /\ sess' = IF ok THEN [sess EXCEPT ![s].fetching = TRUE] ELSE sess

\* the page, loaded again, fetches the entries: setWikiData(map)
FetchData(s) ==
  /\ sess[s].page = "wiki"
  /\ sess[s].fetching
  /\ sess' = [sess EXCEPT ![s].fetching = FALSE, ![s].cache.poll_votes = StoredVotes(db)]
  /\ resp' = NoResp
  /\ UNCHANGED db

InitWiki ==
  /\ db = WikiStore
  /\ resp = NoResp
  /\ InitSessions("wiki")

NextWiki ==
  \/ \E s \in Sessions : \E choice \in Choices : \E ok \in BOOLEAN : WikiHandleVote(s, choice, ok)
  \/ \E s \in Sessions : FetchData(s)

SpecWiki == InitWiki /\ [][NextWiki]_vars


(***************************************************************************)
(* The Matches page from its mount: fetchCurrentUser, then fetchMatches    *)
(* once currentUser is set, and the loading flag                            *)
(***************************************************************************)
\* useState(true), useState(null), useState([]); the effect calls fetchCurrentUser
MountedMatches(user) ==
  [NewSession(user, "matches_mount") EXCEPT
     !.pc = "fetchCurrentUser",
     !.cache = [loading |-> TRUE, currentUser |-> NULL, matches |-> {}]]

\* stores in which a user's profile row may be missing and users have joined
\* cities or not
MountStores ==
  {[t \in TableNames \cup {"city_members"} |->
      CASE t = "profiles" -> {p \in EmptyStore["profiles"] : p.id \in present}
        [] t = "city_members" -> members
        [] OTHER -> EmptyStore[t]] :
     present \in {Users, Users \ {1}},
     members \in SUBSET [profile_id : {1, 2}, city_id : {1}]}

\* fetchCurrentUser: without a session it returns; an error of the profile
\* query (.single(): no row is one) is logged; else setCurrentUser(data),
\* and the effect on [currentUser] calls fetchMatches
FetchCurrentUser(s, ok) ==
  /\ sess[s].pc = "fetchCurrentUser"
  /\ LET user == sess[s].user
         rows == Select(db, "profiles", user, {p \in db["profiles"] : p.id = user}).rows
     IN sess' = IF user = Anon \/ ~ok \/ Cardinality(rows) # 1
                THEN [sess EXCEPT ![s].pc = "idle"]
                ELSE [sess EXCEPT ![s].pc = "fetchMatches", ![s].cache.currentUser = user]
  /\ UNCHANGED <<db, resp>>

\* the early returns and the catch of fetchMatches: setMatches([]), then finally setLoading(false)
FetchMatchesEnds(s) ==
  [Return(s) EXCEPT ![s].cache.matches = {}, ![s].cache.loading = FALSE]

\* fetchMatches, step 1: setLoading(true), the cities the user has joined
LoadMatchesCities(s, ok) ==
  /\ sess[s].pc = "fetchMatches"
  /\ LET me == sess[s].cache.currentUser
         userCities == Select(db, "city_members", me,
                              {m \in db["city_members"] : m.profile_id = me}).rows
         cityIds == {m.city_id : m \in userCities}
     IN sess' = IF ~ok \/ cityIds = {}
                THEN FetchMatchesEnds(s)
                ELSE [sess EXCEPT ![s].pc = "load_members", ![s].cache.loading = TRUE,
                                  ![s].snap = [cityIds |-> cityIds, memberIds |-> {}]]
  /\ UNCHANGED <<db, resp>>

\* step 2, one turn of the loop
LoadMatchesMembers(s, ok) ==
  /\ sess[s].pc = "load_members"
  /\ LET me == sess[s].cache.currentUser
         cityId == CHOOSE c \in sess[s].snap.cityIds :
                     \A x \in sess[s].snap.cityIds : c <= x
         cityMembers == Select(db, "city_members", me,
                               {m \in db["city_members"] : m.city_id = cityId}).rows
         memberIds == sess[s].snap.memberIds
                        \cup {m.profile_id : m \in {x \in cityMembers : x.profile_id # me}}
         rest == sess[s].snap.cityIds \ {cityId}
     IN sess' = IF ~ok THEN FetchMatchesEnds(s)
                ELSE IF rest # {}
                THEN [sess EXCEPT ![s].snap = [cityIds |-> rest, memberIds |-> memberIds]]
                ELSE IF memberIds = {} THEN FetchMatchesEnds(s)
                ELSE [sess EXCEPT ![s].pc = "load_profiles",
                                  ![s].snap = [cityIds |-> {}, memberIds |-> memberIds]]
  /\ UNCHANGED <<db, resp>>

\* step 3: the profiles of the members; setMatches, setLoading(false)
LoadMatchesProfiles(s, ok) ==
  /\ sess[s].pc = "load_profiles"
  /\ LET rows == Select(db, "profiles", sess[s].cache.currentUser,
                        {p \in db["profiles"] : p.id \in sess[s].snap.memberIds}).rows
     IN sess' = IF ~ok THEN FetchMatchesEnds(s)
                ELSE [Return(s) EXCEPT ![s].cache.matches = {p.id : p \in rows},
                                       ![s].cache.loading = FALSE]
  /\ UNCHANGED <<db, resp>>

\* the steps of the page of view s
MountStep(s) ==
  \/ \E ok \in BOOLEAN : FetchCurrentUser(s, ok)
  \/ \E ok \in BOOLEAN : LoadMatchesCities(s, ok)
  \/ \E ok \in BOOLEAN : LoadMatchesMembers(s, ok)
  \/ \E ok \in BOOLEAN : LoadMatchesProfiles(s, ok)

InitMount ==
  /\ db \in MountStores
  /\ resp = NoResp
  /\ sess \in [Sessions -> {MountedMatches(u) : u \in {Anon, 1, 2}}]

NextMount == \E s \in Sessions : MountStep(s)

\* every request of a page gets its answer
SpecMount == InitMount /\ [][NextMount]_vars /\ \A s \in Sessions : WF_vars(MountStep(s))


(***************************************************************************)
(* Properties of the policy engine (checked under SpecStore)               *)
(***************************************************************************)
OwnerGuardedTables == {"posts", "comments", "events", "travel_plans", "travel_vlogs"}

\* C1: a Post, Comment, Event, TravelPlan or Vlog row is changed or removed
\* by an UPDATE or DELETE only when the acting identity is the row's owner;
\* an attempt by any other identity leaves the row as it was.
C1_OwnerOnlyUpdateDelete ==
  [][\A t \in OwnerGuardedTables : \A r \in db[t] :
       (resp'.op \in {"UPDATE", "DELETE"} /\ r \notin db'[t])
         => (Authenticated(resp'.uid) /\ resp'.uid = Owner(t, r))]_vars

\* an authenticated identity that owns no row of the table has sent an UPDATE
\* or DELETE for an existing row, and no row was affected
C1_Witness ==
  /\ resp.op \in {"UPDATE", "DELETE"}
  /\ resp.tbl \in OwnerGuardedTables
  /\ Authenticated(resp.uid)
  /\ db[resp.tbl] # {}
  /\ \A r \in db[resp.tbl] : Owner(resp.tbl, r) # resp.uid
  /\ resp.rows = {}

\* C7: a SELECT on chats returns only rows in which the caller participates,
\* and an INSERT into chats succeeds only when the caller is one of the two
\* supplied participants and user1_id < user2_id; any other INSERT is rejected
\* and creates no row.
C7_ChatPolicies ==
  /\ (resp.op = "SELECT" /\ resp.tbl = "chats")
       => \A r \in resp.rows : resp.uid \in {r.user1_id, r.user2_id}
  /\ (resp.op = "INSERT" /\ resp.tbl = "chats")
       => IF resp.uid \in {resp.arg.user1_id, resp.arg.user2_id}
             /\ resp.arg.user1_id < resp.arg.user2_id
          THEN TRUE
          ELSE resp.err /\ resp.arg \notin db["chats"]

\* an authenticated non-participant has selected from chats while a chat row
\* exists, and received nothing
C7_Witness ==
  /\ resp.op = "SELECT"
  /\ resp.tbl = "chats"
  /\ Authenticated(resp.uid)
  /\ db["chats"] # {}
  /\ resp.rows = {}

Participates(d, uid, chatId) ==
  \E c \in d["chats"] : c.id = chatId /\ uid \in {c.user1_id, c.user2_id}

\* C8: a SELECT on messages returns only messages of chats in which the
\* caller participates, and an INSERT into messages succeeds only for a
\* participant of the referenced chat whose sender_id is the caller; any other
\* INSERT is rejected and creates no message row.
C8_MessagePolicies ==
  /\ (resp.op = "SELECT" /\ resp.tbl = "messages")
       => \A r \in resp.rows : Participates(db, resp.uid, r.chat_id)
  /\ (resp.op = "INSERT" /\ resp.tbl = "messages")
       => IF Participates(db, resp.uid, resp.arg.chat_id)
             /\ resp.arg.sender_id = resp.uid
          THEN TRUE
          ELSE resp.err /\ resp.arg \notin db["messages"]

\* a participant has tried to insert a message that names the other
\* participant as its sender, and was rejected
C8_Witness ==
  /\ resp.op = "INSERT"
  /\ resp.tbl = "messages"
  /\ Participates(db, resp.uid, resp.arg.chat_id)
  /\ Participates(db, resp.arg.sender_id, resp.arg.chat_id)
  /\ resp.arg.sender_id # resp.uid
  /\ resp.err
  /\ db["messages"] = {}

ToggleTables == {"post_votes", "vlog_reactions", "event_rsvps"}

\* a statement on a vote, reaction or RSVP table changes, removes or creates
\* only rows whose user_id is the acting identity
WritesOwnRowsOnly ==
  \A t \in ToggleTables :
    resp'.tbl = t =>
      /\ \A r \in db[t] \ db'[t] : r.user_id = resp'.uid
      /\ \A r \in db'[t] \ db[t] : r.user_id = resp'.uid

\* C9 as stated: every caller can SELECT every row of post_votes,
\* vlog_reactions and event_rsvps, and writes take effect only on rows whose
\* user_id is the acting identity.
C9_Original ==
  [][/\ (resp'.op = "SELECT" /\ resp'.tbl \in ToggleTables)
          => resp'.rows = db'[resp'.tbl]
     /\ WritesOwnRowsOnly]_vars

\* C9 (amended): every caller can SELECT every row of vlog_reactions and
\* event_rsvps; a SELECT on post_votes returns exactly the rows whose user_id
\* is the acting identity (none to an unauthenticated caller); on all three
\* tables writes take effect only on rows whose user_id is the acting identity.
C9_TogglePolicies ==
  [][/\ (resp'.op = "SELECT" /\ resp'.tbl \in {"vlog_reactions", "event_rsvps"})
          => resp'.rows = db'[resp'.tbl]
     /\ (resp'.op = "SELECT" /\ resp'.tbl = "post_votes")
          => resp'.rows = {r \in db'["post_votes"] :
                             Authenticated(resp'.uid) /\ r.user_id = resp'.uid}
     /\ WritesOwnRowsOnly]_vars

\* a caller other than the voter has selected from post_votes while a vote
\* row exists, and received nothing
C9_Witness ==
  /\ resp.op = "SELECT"
  /\ resp.tbl = "post_votes"
  /\ db["post_votes"] # {}
  /\ \A r \in db["post_votes"] : r.user_id # resp.uid
  /\ resp.rows = {}

OwnedContentTables ==
  {"posts", "comments", "event_discussions", "travel_plans",
   "travel_plan_comments", "travel_vlogs", "vlog_comments"}

\* C10: every row of owned content that a statement creates carries the
\* acting identity in its owner field; an INSERT naming another profile as
\* owner creates no row.
C10_InsertOwnerIsActor ==
  [][\A t \in OwnedContentTables : \A r \in db'[t] \ db[t] :
       Authenticated(resp'.uid) /\ Owner(t, r) = resp'.uid]_vars

\* an authenticated identity has tried to insert owned content attributed to
\* another profile, and was rejected
C10_Witness ==
  /\ resp.op = "INSERT"
  /\ resp.tbl \in OwnedContentTables
  /\ Authenticated(resp.uid)
  /\ Owner(resp.tbl, resp.arg) # resp.uid
  /\ resp.err
  /\ resp.arg \notin db[resp.tbl]


(***************************************************************************)
(* Properties of the vote protocol                                         *)
(***************************************************************************)
NoVoteInFlight == \A s \in Sessions : sess[s].pc = "idle"

VoteCount(d, postId, voteType) ==
  Cardinality({r \in d["post_votes"] : r.post_id = postId /\ r.vote_type = voteType})

CountersMatchVotes(d) ==
  \A p \in d["posts"] :
    /\ p.upvotes = VoteCount(d, p.id, "up")
    /\ p.downvotes = VoteCount(d, p.id, "down")

\* C2: whenever no vote action is in flight, the upvotes and downvotes of
\* every post equal the numbers of its 'up' and 'down' post_votes rows.
C2_CountersMatchVotes == NoVoteInFlight => CountersMatchVotes(db)

\* both racers have run one toggle to its end
RaceComplete(ss) == \A t \in Racers : ss[t].pc = "idle" /\ ss[t].fetching

\* C16: two sessions toggling the same post at the same time (each reads,
\* writes its vote row, then writes counters computed from its read) leave,
\* once both are complete, counters that differ from the post_votes counts,
\* unless both sessions are the post author's and cast the same vote.
C16_RacingTogglesDiverge ==
  [][(RaceComplete(sess') /\ CountersMatchVotes(db'))
       => \A s \in Racers : \A p \in db["posts"] :
            /\ sess[s].user = p.author_id
            /\ sess[s].pc = "hv_count" => p[VoteColumn(sess[s].arg)] > 0]_vars

\* two sessions of the post's author have raced and the counters are wrong
C16_Witness ==
  /\ RaceComplete(sess)
  /\ \A s \in Racers : \A p \in db["posts"] : sess[s].user = p.author_id
  /\ ~CountersMatchVotes(db)

\* C17: in every reachable state the counters of every post and of every vlog
\* are greater than or equal to 0.
C17_CountersNeverNegative ==
  /\ \A p \in db["posts"] : p.upvotes >= 0 /\ p.downvotes >= 0
  /\ \A v \in db["travel_vlogs"] : v.like_count >= 0 /\ v.dislike_count >= 0

\* the stored reaction of a user on the vlog: "none", "like" or "dislike"
StoredReaction(d, user) ==
  IF ReactionsOf(d, user, TheVlog) = {} THEN "none"
  ELSE (CHOOSE r \in ReactionsOf(d, user, TheVlog) : TRUE).reaction_type

ReactionCount(d, vlogId, reactionType) ==
  Cardinality({r \in d["vlog_reactions"] :
                 r.vlog_id = vlogId /\ r.reaction_type = reactionType})

\* C18: one user reacting to one vlog, each toggle after the previous call
\* has returned: the removal leaves no reaction row, the insert leaves one row
\* of the clicked type, and after every completed toggle like_count and
\* dislike_count equal the numbers of reaction rows of that type.
C18_ReactionToggleMachine ==
  [][/\ (sess[1].pc = "hr_delete" /\ sess'[1].pc = "hr_decrement")
          => StoredReaction(db', sess[1].user) = "none"
     /\ (sess[1].pc = "hr_insert" /\ sess'[1].pc = "hr_increment")
          => StoredReaction(db', sess[1].user) = sess[1].arg
     /\ (sess[1].pc # "idle" /\ sess'[1].pc = "idle")
          => \A v \in db'["travel_vlogs"] :
               /\ v.like_count = ReactionCount(db', v.id, "like")
               /\ v.dislike_count = ReactionCount(db', v.id, "dislike")]_vars

\* the row offered to an INSERT breaks the table's INSERT policy, a CHECK, a
\* reference or the primary key
InsertViolates(d, t, uid, new) ==
  \/ ~InsertCheck(d, t, uid, new)
  \/ ~CheckConstraints(t, new)
  \/ ~ForeignKeysHold(d, t, new)
  \/ \E r \in d[t] : Conflicts(t, r, new)

C19_PlanDatesOrdered ==
  /\ \A r \in db["travel_plans"] : r.end_date >= r.start_date
  /\ (resp.op = "handleAddPlan" /\ resp.arg.end_date < resp.arg.start_date)
       => resp.err /\ resp.arg \notin db["travel_plans"]

\* a plan exists, and handleAddPlan has just been refused a plan that ends
\* before it starts
C19_Witness ==
  /\ db["travel_plans"] # {}
  /\ resp.op = "handleAddPlan"
  /\ resp.arg.end_date < resp.arg.start_date
  /\ resp.err

\* the stored vote of a user on the post: "none", "up" or "down"
StoredVote(d, user) ==
  IF VotesOf(d, user, ThePost) = {} THEN "none"
  ELSE (CHOOSE r \in VotesOf(d, user, ThePost) : TRUE).vote_type

\* the {none, up, down} toggle machine
Toggle(state, voteType) == IF state = voteType THEN "none" ELSE voteType

\* C3: one user toggling one post, each toggle after the previous call has
\* returned: each toggle moves the stored vote as the toggle machine does,
\* and after each call the net change of upvotes / downvotes is 1 for the
\* counter of the stored vote and 0 otherwise.
C3_ToggleMachine ==
  [][/\ (sess[1].pc = "hv_vote" /\ sess'[1].pc = "hv_count")
          => StoredVote(db', sess[1].user) = Toggle(StoredVote(db, sess[1].user), sess[1].arg)
     /\ (sess[1].pc = "hv_count" /\ sess'[1].pc = "idle")
          => \A p \in db'["posts"] :
               /\ p.upvotes = (IF StoredVote(db', sess[1].user) = "up" THEN 1 ELSE 0)
               /\ p.downvotes = (IF StoredVote(db', sess[1].user) = "down" THEN 1 ELSE 0)]_vars

(***************************************************************************)
(* Properties of the toggle tables                                         *)
(***************************************************************************)
\* C4: under any interleaving of handleVote, handleReaction and handleRSVP,
\* post_votes holds at most one row per (user_id, post_id), vlog_reactions
\* at most one per (user_id, vlog_id), event_rsvps at most one per
\* (event_id, user_id).
C4_OneRowPerUserAndTarget ==
  /\ \A r1 \in db["post_votes"] : \A r2 \in db["post_votes"] :
       (r1.user_id = r2.user_id /\ r1.post_id = r2.post_id) => r1 = r2
  /\ \A r1 \in db["vlog_reactions"] : \A r2 \in db["vlog_reactions"] :
       (r1.user_id = r2.user_id /\ r1.vlog_id = r2.vlog_id) => r1 = r2
  /\ \A r1 \in db["event_rsvps"] : \A r2 \in db["event_rsvps"] :
       (r1.event_id = r2.event_id /\ r1.user_id = r2.user_id) => r1 = r2

\* two sessions of one user, both with no reaction fetched, are both past
\* their INSERT of a different reaction, and one row stands
C4_Witness ==
  \E s \in Sessions : \E t \in Sessions :
    /\ s # t
    /\ sess[s].user = sess[t].user
    /\ sess[s].pc = "hr_increment" /\ sess[s].snap.user_reaction = "none"
    /\ sess[t].pc = "hr_increment" /\ sess[t].snap.user_reaction = "none"
    /\ sess[s].arg # sess[t].arg
    /\ Cardinality(ReactionsOf(db, sess[s].user, TheVlog)) = 1

(***************************************************************************)
(* Properties of chat creation (checked under SpecChat)                    *)
(***************************************************************************)
\* the two profiles of a chat a session was sent to
ChatPair(s) == {sess[s].user, sess[s].cache.match}

\* C5: handleStartChat calls issued by A or by B for the pair {A, B} all
\* navigate to the same chat row, and that row has user1 = min(A, B),
\* user2 = max(A, B) and user1 different from user2.
C5_StartChatIdempotent ==
  \A s \in Sessions : \A t \in Sessions :
    (/\ sess[s].cache.chat # NULL
     /\ sess[t].cache.chat # NULL
     /\ ChatPair(s) = ChatPair(t))
    => /\ sess[s].cache.chat = sess[t].cache.chat
       /\ \E c \in db["chats"] :
            /\ c.id = sess[s].cache.chat
            /\ {c.user1_id, c.user2_id} = ChatPair(s)
            /\ c.user1_id < c.user2_id

\* C6: there is at most one chat row per unordered pair of profiles, also
\* when two sessions run handleStartChat concurrently.
C6_OneChatPerPair ==
  \A c1 \in db["chats"] : \A c2 \in db["chats"] :
    {c1.user1_id, c1.user2_id} = {c2.user1_id, c2.user2_id} => c1 = c2

(***************************************************************************)
(* Properties of event creation (checked under SpecEvents)                 *)
(***************************************************************************)
IsResident(d, uid) == \E p \in d["profiles"] : p.id = uid /\ p.role = "resident"

\* C11: an events row is inserted only by an identity equal to its added_by
\* whose profile has role 'resident' at that moment; an insert (that of
\* handleAddEvent included) by a profile of another role creates no event.
C11_OnlyResidentsCreateEvents ==
  [][/\ \A e \in db'["events"] \ db["events"] :
          /\ resp'.op = "INSERT" /\ resp'.tbl = "events" /\ ~resp'.err
          /\ resp'.uid = e.added_by
          /\ IsResident(db, e.added_by)
     /\ (resp' # resp /\ resp'.op = "INSERT" /\ ~IsResident(db, resp'.uid))
          => resp'.err /\ db'["events"] = db["events"]]_vars

\* the insert of an event of their own by a signed-in user who is no resident
\* was rejected, while a user who was a resident has created an event
C11_Witness ==
  /\ resp.op = "INSERT" /\ resp.err
  /\ resp.uid \in Users /\ resp.arg.added_by = resp.uid
  /\ ~IsResident(db, resp.uid)
  /\ \E s \in Sessions : sess[s].user = resp.uid
  /\ \E e \in db["events"] : e.id # TheEvent

(***************************************************************************)
(* Properties of the match query (checked under SpecMatches)               *)
(***************************************************************************)
\* the other profiles with a membership in a city the profile has joined
SharingACity(d, me) ==
  {u \in Users \ {me} :
     \E m1 \in d["city_members"] : \E m2 \in d["city_members"] :
       m1.profile_id = me /\ m2.profile_id = u /\ m1.city_id = m2.city_id}

\* C12: the matches set by a completed fetchMatches are exactly the other
\* profiles sharing a joined city with the acting profile: never the acting
\* profile, none when it has joined no city.
C12_MatchesShareACity ==
  [][\A s \in Sessions :
       (sess'[s].pc = "idle" /\ sess'[s] # sess[s])
         => sess'[s].cache.matches = SharingACity(db, sess[s].user)]_vars

(***************************************************************************)
(* Properties of RSVPs (checked under SpecToggle)                          *)
(***************************************************************************)
\* the event_rsvps rows of a user for the event are what a call with the
\* status leaves: none for 'none', else the one row with that status
RsvpRowsAre(d, user, status) ==
  RsvpsOf(d, user, TheEvent) =
    IF status = "none" THEN {}
    ELSE {[event_id |-> TheEvent, user_id |-> user, status |-> status]}

\* C13: every handleRSVP call of a user leaves exactly one event_rsvps row
\* for the user and the event, carrying the status of that call, and no row
\* when the status is 'none'.
C13_RsvpLastWriteWins ==
  [][/\ \A s \in Sessions :
          (sess[s].page = "events" /\ sess'[s].cache # sess[s].cache)
            => RsvpRowsAre(db', sess[s].user, sess'[s].cache.status)
     /\ \A u \in Users :
          RsvpsOf(db', u, TheEvent) # RsvpsOf(db, u, TheEvent)
            => \E s \in Sessions :
                 sess[s].user = u /\ RsvpRowsAre(db', u, sess'[s].cache.status)]_vars

\* a user answered 'going' in one session and then 'interested' in another:
\* one row, with status 'interested'
C13_Witness ==
  \E s \in Sessions : \E t \in Sessions :
    /\ sess[s].page = "events" /\ sess[t].page = "events"
    /\ sess[s].user = sess[t].user
    /\ sess[s].cache.status = "going"
    /\ sess[t].cache.status = "interested"
    /\ RsvpRowsAre(db, sess[t].user, "interested")

(***************************************************************************)
(* Properties of deletion (checked under SpecDelete)                       *)
(***************************************************************************)
\* the rows of the store that refer to the row of table t with the id
Referring(d, t, id) ==
  UNION { {<<fk.child, c>> : c \in {x \in d[fk.child] : x[fk.col] = id}} :
            fk \in {f \in ForeignKeys : f.parent = t} }

\* the row is gone and no row refers to it
Removed(d, t, r) == r \notin d[t] /\ Referring(d, t, r.id) = {}

\* C14: deleting a city (no policy lets a client delete one: by the table
\* owner) is not rejected because dependants exist; it removes the city and
\* leaves no row that references it.
C14_CityDeleteCascades ==
  (resp.op = "DELETE" /\ resp.tbl = "cities" /\ resp.uid = TableOwner)
    => ~resp.err /\ Removed(db, "cities", resp.arg)

\* the identity may delete the row: the table owner, or a user the DELETE
\* policy of the table admits for the row
MayDelete(d, t, uid, r) == uid = TableOwner \/ DeleteUsing(d, t, uid, r)

\* C15: a delete of a post, event, travel plan, vlog, chat or profile by an
\* identity permitted to delete it succeeds and leaves neither the row nor
\* a row depending on it; so does handleDeletePost run by the post's author.
C15_ParentDeleteCascades ==
  [][(/\ resp' # resp
      /\ resp'.op \in {"DELETE", "handleDeletePost"}
      /\ resp'.tbl \in ParentTables \ {"cities"}
      /\ MayDelete(db, resp'.tbl, resp'.uid, resp'.arg))
        => ~resp'.err /\ Removed(db', resp'.tbl, resp'.arg)]_vars

(***************************************************************************)
(* Properties of the unique columns (checked under SpecProfile)            *)
(***************************************************************************)
\* C21: no two profiles have the same username and no two cities the same
\* (name, country); an updateProfile write that is rejected, as the one that
\* loses a race for a username is, leaves the store unchanged.
C21_UniqueNames ==
  /\ [](/\ \A p \in db["profiles"] : \A q \in db["profiles"] :
            p.username = q.username => p = q
        /\ \A c \in db["cities"] : \A e \in db["cities"] :
            (c.name = e.name /\ c.country = e.country) => c = e)
  /\ [][resp'.op = "updateProfile"
         => /\ resp'.err => db' = db
            /\ (\E p \in db["profiles"] :
                   p.id # resp'.uid /\ p.username = resp'.arg.username)
                 => resp'.err]_vars

\* updateProfile passed its availability check, another user took the name,
\* and the write was rejected
C21_Witness ==
  /\ resp.op = "updateProfile"
  /\ resp.err
  /\ \E p \in db["profiles"] : p.id # resp.uid /\ p.username = resp.arg.username
  /\ \E p \in db["profiles"] : p.id = resp.uid /\ p.username # resp.arg.username

(***************************************************************************)
(* Properties of the uploads (checked under SpecUpload)                    *)
(***************************************************************************)
\* the url of the file of a post, event or vlog row
UrlOf(r) ==
  IF "image_url" \in DOMAIN r THEN r.image_url
  ELSE IF "video_url" \in DOMAIN r THEN r.video_url
  ELSE NoUrl

StoredKeys(d, bucket) == {o.name : o \in {x \in d["objects"] : x.bucket = bucket}}

\* C22: a post, event or vlog row that references an uploaded object exists
\* only when that object is stored, and a handler whose upload failed
\* returns without inserting a row.
C22_NoRowWithoutUpload ==
  /\ [](\A page \in Pages : \A r \in db[AddTable(page)] :
          UrlOf(r) \notin {NoUrl, ExternalUrl}
            => UrlOf(r) \in StoredKeys(db, UploadBucket(page)))
  /\ [][\A s \in Sessions :
          (sess[s].pc = "add_upload" /\ sess'[s].pc # "add_upload" /\ resp'.err)
            => /\ sess'[s].pc = "idle"
               /\ \A page \in Pages : db'[AddTable(page)] = db[AddTable(page)]]_vars

\* an upload has failed and its handler has returned, while a row that
\* references an uploaded object is stored
C22_Witness ==
  /\ resp.op = "UPLOAD" /\ resp.err
  /\ \A s \in Sessions : sess[s].pc = "idle"
  /\ \E page \in Pages : \E r \in db[AddTable(page)] :
       UrlOf(r) \in StoredKeys(db, UploadBucket(page))

\* C24: every object key written by an upload begins with the uploading
\* user's identifier.
C24_KeysOwnerPrefixed ==
  \A o \in db["objects"] : o.name.folder = o.owner


(***************************************************************************)
(* Properties of the Chat view (checked under SpecChatView and             *)
(* SpecChatViewLive)                                                       *)
(***************************************************************************)
Contents == 1..(NumSessions * MaxSends)

Stored(c) == \E r \in db["messages"] : r.chat_id = TheChat /\ r.content = c

Shows(s, c) ==
  \E i \in 1..Len(sess[s].cache.messages) : sess[s].cache.messages[i].content = c

Copies(s, c) ==
  Cardinality({i \in 1..Len(sess[s].cache.messages) : sess[s].cache.messages[i].content = c})

ShownOnce == \A s \in Sessions : \A c \in Contents : Copies(s, c) <= 1

\* C29: the displayed list of an open Chat view never holds a sent message
\* more than once, under any interleaving of the optimistic append, the push
\* callback and the list replacement of fetchMessages; and a message whose
\* insert failed is gone from the list once a fetchMessages has set it.
C29_NoDuplicateMessages ==
  /\ []ShownOnce
  /\ [][\A s \in Sessions :
          (sess[s].fetching /\ sess[s].pending # NoCache /\ ~sess'[s].fetching)
            => \A c \in Contents : Shows(s, c)' => Stored(c)]_vars


(***************************************************************************)
(* Properties of failed backend calls (checked under SpecEvents)           *)
(***************************************************************************)
\* the status of the user's stored RSVP for the event
StoredRsvpStatus(d, user) ==
  LET mine == RsvpsOf(d, user, TheEvent)
  IN IF mine = {} THEN "none" ELSE (CHOOSE r \in mine : TRUE).status

\* C25: a backend call that fails inside a user action is caught and
\* reported, and the action does not update local state as if it had
\* succeeded: whenever handleRSVP sets the displayed status, the store holds
\* that status for the user.
C25_FailureLeavesLocalState ==
  [][\A s \in Sessions :
       (sess'[s].cache # sess[s].cache /\ sess'[s].fetching = sess[s].fetching)
         => StoredRsvpStatus(db', sess[s].user) = sess'[s].cache.status]_vars


(***************************************************************************)
(* Properties of the flight search cache (checked under SpecTransport)     *)
(***************************************************************************)
\* C26: searchFlights shows the cached list without calling the API exactly
\* when an entry of the same key is less than 5 minutes old; otherwise, for
\* valid input, it calls the API, and it writes the cache with the current
\* time only when the response contains data: a failed or empty search never
\* creates or refreshes a cache entry.
C26_CacheUse ==
  [][/\ resp'.op = "cached"
         => \E e \in db["localStorage"] :
              /\ <<e.key>> = resp'.arg
              /\ db["now"] - e.timestamp < CacheMinutes
              /\ \E s \in Sessions : sess'[s].cache.flights = e.flights /\ sess'[s].pc = "idle"
     /\ resp'.op \in {"invalid", "request"}
         => ~\E e \in db["localStorage"] :
               <<e.key>> = resp'.arg /\ db["now"] - e.timestamp < CacheMinutes
     /\ db'["localStorage"] # db["localStorage"]
         => /\ resp'.op = "stored"
            /\ \E e \in db'["localStorage"] :
                 /\ <<e.key>> = resp'.arg
                 /\ e.timestamp = db["now"]
                 /\ e.flights # <<>>
     /\ resp'.op \in {"error", "nodata"} => db' = db]_vars


\* C27: when fetchEvents completes for a signed-in user, the RSVP status it
\* records for the event is the status of the user's stored event_rsvps row,
\* and 'none' exactly when the user has no row: an RSVP made earlier is still
\* shown after a re-fetch.
C27_FetchedRsvpIsStored ==
  [][\A s \in Sessions :
       (sess[s].fetching /\ ~sess'[s].fetching)
         => sess'[s].cache.status = StoredRsvpStatus(db, sess[s].user)]_vars


(***************************************************************************)
(* Properties of the wiki poll (checked under SpecWiki)                    *)
(***************************************************************************)
\* C28: each completed handleVote for a choice of poll_answers raises the
\* stored tally of that choice by exactly 1 and leaves the other tallies as
\* they are, so n completed votes raise the tallies by n in total; a vote for
\* a choice outside poll_answers changes nothing.
C28_VoteAddsOne ==
  [][resp'.op = "handleVote"
       => IF resp'.err
          THEN db' = db
          ELSE \A a \in PollAnswers :
                 StoredVotes(db')[a] =
                   StoredVotes(db)[a] + (IF <<a>> = resp'.arg THEN 1 ELSE 0)]_vars


(***************************************************************************)
(* Properties of the Matches page at mount (checked under SpecMount)       *)
(***************************************************************************)
\* C30: the Matches page leaves its loading state on every execution,
\* whatever the outcome of fetchCurrentUser and of fetchMatches: loading is
\* eventually false.
C30_LoadingEnds == \A s \in Sessions : <>(~sess[s].cache.loading)

=============================================================================
